---------------------------- MODULE Spec2Model ----------------------------
(***************************************************************************)
(* A model of the creative automation pipeline's transform-and-validate    *)
(* core: ImageCompositor (aspect-ratio cropping, text overlay, font        *)
(* sizing) and ComplianceChecker (brand and legal checks).                 *)
(*                                                                         *)
(* Every public call is one action.  Each component has a specification    *)
(* of its own (SpecCrop, SpecFont, SpecOverlay, SpecLegal, SpecBrand); the *)
(* variables of the other components stay at their idle values.            *)
(*                                                                         *)
(* Numbers.  The code computes the crop with IEEE doubles; the model uses  *)
(* exact integer arithmetic on numerator/denominator pairs.  For sources   *)
(* up to 5000 x 5000 the two agree on every comparison and truncation of   *)
(* _smart_crop (checked by enumeration), so the model is exact on its      *)
(* range.  _calculate_font_size does differ from exact arithmetic on a     *)
(* few inputs; these are listed in FontFloatSlips.                         *)
(***************************************************************************)
EXTENDS Integers, Sequences, FiniteSets, TLC

VARIABLES
    \* ImageCompositor.create_variants
    base_image,      \* the caller's source image
    image_at_call,   \* the source image as it was when the call was made
    aspect_ratios,   \* the ratio list argument (None: omitted)
    cv_pc,           \* "ready", "returned" or "raised"
    cv_variants,     \* the mapping handed to the caller (None: nothing)
    cv_error,        \* the ratio named by the ValueError (None: no error)
    \* ImageCompositor._calculate_font_size
    base_font_size,  \* self.base_font_size
    fs_height,       \* img_height of the last call (0: no call yet)
    fs_size,         \* the size the last call returned (0: no call yet)
    fs_prev_height,  \* img_height of the call before it (0: none)
    fs_prev_size,    \* the size the call before it returned (0: none)
    \* ImageCompositor.add_text_overlay / add_text_overlay_with_contrast
    ov_config,       \* padding, text_position, background_opacity, base size
    ov_image,        \* the caller's image
    ov_image_at_call,\* the caller's image as it was when the call was made
    ov_text,         \* the message: a sequence of characters
    ov_position,     \* the position argument (None: omitted)
    ov_brightness,   \* mean brightness (0..255) of the image's pixels
    ov_fonts,        \* which fonts the machine can load
    ov_pc,           \* "ready", "returned" or "raised"
    ov_method,       \* which method was called (None: no call yet)
    ov_result,       \* the image handed to the caller (None: nothing)
    ov_trace,        \* what the call computed on its way (None: no call yet)
    \* ComplianceChecker.check_legal_compliance
    legal_config,    \* prohibited_words, severity_levels
    lg_text,         \* the campaign text: a sequence of characters
    lg_pc,           \* "ready" or "returned"
    lg_result,       \* the ComplianceResult (None: no call yet)
    \* ComplianceChecker.check_brand_compliance
    brand_config,    \* logo_template_path, brand_colors, min_logo_confidence
    logo_template,   \* BrandConfig._logo_template, the cache (None: empty)
    logo_file,       \* the file at logo_template_path
    br_image,        \* the image under check
    br_pc,           \* "ready", "returned" or "raised"
    br_result,       \* the ComplianceResult (None: nothing returned)
    br_calls,        \* calls made on this BrandConfig so far
    logo_opens,      \* how often Image.open was called on the logo file
    logo_loads,      \* how often a template was decoded and put in the cache
    logo_returned,   \* what the last load_logo_template returned (None: nothing)
    \* ComplianceChecker._color_match
    cm_rgb1,         \* the colour the first hex string spells
    cm_rgb2,         \* the colour the second hex string spells
    cm_color1,       \* color1
    cm_color2,       \* color2
    cm_tolerance,    \* tolerance
    cm_pc,           \* "ready", "returned" or "raised"
    cm_result,       \* the value returned
    \* PipelineOrchestrator.run
    pl_config,       \* aspect_ratios, compliance enabled, GenAI client configured
    pl_brief,        \* the campaign brief: whether it parses and validates, its products
    pl_legal,        \* what check_legal_compliance says of the campaign message
    pl_pc,           \* "ready", "products" or "returned"
    pl_next,         \* the index of the product the loop turns to next
    pl_outputs,      \* outputs
    pl_errors,       \* errors
    pl_events,       \* the files written and the checks run, in the order they happened
    pl_done,         \* for each product processed, whether _process_product raised
    pl_result,       \* the PipelineResult (None: run has not returned)
    \* OpenAIClient.generate_image
    gi_size,         \* size
    gi_size_str,     \* size_str
    gi_pc,           \* "ready", "attempt", "sleeping", "returned" or "raised"
    gi_attempt,      \* attempt, the loop variable
    gi_calls,        \* how often client.images.generate was called
    gi_outcomes,     \* what each pass through the try block ended with
    gi_delays,       \* the delays slept between attempts
    gi_message,      \* the message of the exception raised (None: none)
    \* ImageCompositor._wrap_text
    wr_text,         \* text
    wr_font,         \* font
    wr_max_width,    \* max_width
    wr_pc,           \* "ready" or "returned"
    wr_result,       \* the string returned
    \* BrandConfig.load_logo_template called from several threads
    th_template,     \* self._logo_template of the shared BrandConfig
    th_file,         \* what is at logo_template_path
    th_pc,           \* for each thread the statement it is at
    th_local,        \* for each thread the template it decoded (None: none)
    th_returned,     \* for each thread what its last call returned
    th_calls,        \* for each thread the calls it has made
    th_stores,       \* how often self._logo_template was assigned
    \* step 5 of PipelineOrchestrator._process_product
    mg_brand_config, \* the BrandConfig of the compliance checker
    mg_logo_file,    \* what is at its logo_template_path
    mg_image,        \* final_image, as the brand check sees it
    mg_legal_config, \* the LegalConfig of the compliance checker
    mg_message,      \* campaign_message
    mg_pc,           \* "ready" or "done"
    mg_brand,        \* the result check_brand_compliance returned (None: it raised)
    mg_legal,        \* the result check_legal_compliance returned (None: not called)
    mg_status,       \* compliance_status as it is attached to the asset
    mg_legal_after   \* legal_status after the results were combined

cropVars == <<base_image, image_at_call, aspect_ratios, cv_pc, cv_variants, cv_error>>
fontVars == <<base_font_size, fs_height, fs_size, fs_prev_height, fs_prev_size>>
overlayVars == <<ov_config, ov_image, ov_image_at_call, ov_text, ov_position,
                 ov_brightness, ov_fonts, ov_pc, ov_method, ov_result, ov_trace>>
legalVars == <<legal_config, lg_text, lg_pc, lg_result>>
brandVars == <<brand_config, logo_template, logo_file, br_image, br_pc, br_result,
               br_calls, logo_opens, logo_loads, logo_returned>>
matchVars == <<cm_rgb1, cm_rgb2, cm_color1, cm_color2, cm_tolerance, cm_pc, cm_result>>
pipeVars == <<pl_config, pl_brief, pl_legal, pl_pc, pl_next, pl_outputs, pl_errors,
              pl_events, pl_done, pl_result>>
genVars == <<gi_size, gi_size_str, gi_pc, gi_attempt, gi_calls, gi_outcomes, gi_delays,
             gi_message>>
wrapVars == <<wr_text, wr_font, wr_max_width, wr_pc, wr_result>>
threadVars == <<th_template, th_file, th_pc, th_local, th_returned, th_calls, th_stores>>
mergeVars == <<mg_brand_config, mg_logo_file, mg_image, mg_legal_config, mg_message,
               mg_pc, mg_brand, mg_legal, mg_status, mg_legal_after>>
vars == <<cropVars, fontVars, overlayVars, legalVars, brandVars, matchVars, pipeVars,
          genVars, wrapVars, threadVars, mergeVars>>

\* Python's None for a name, and for a number that is not there yet
None == "None"
\* an optional compound value: nothing, or a value
Nothing == [given |-> FALSE]
Some(v) == [given |-> TRUE, value |-> v]

---------------------------------------------------------------------------
(* Bounds of the model *)

\* source images of the exhaustive range are 1..MaxDim wide and high
MaxDim == 400
\* source images of the calls with longer ratio lists
MaxSmallDim == 6
\* longest ratio list passed to create_variants
MaxRatios == 2
\* configured base font sizes are 0..MaxBaseFont
MaxBaseFont == 60
\* image heights passed to _calculate_font_size are 1..MaxFontHeight
MaxFontHeight == 2600
\* longest campaign text of the exhaustive range, in characters
MaxTextLen == 3
\* longest list of prohibited words of the exhaustive range
MaxTerms == 2
\* longest list of configured brand colours
MaxBrandColors == 2
\* images given to the overlay are 1..MaxOverlayHeight high, or much higher
MaxOverlayHeight == 30
\* longest overlay message, in characters
MaxOverlayText == 4
\* most calls made on one BrandConfig
MaxBrandCalls == 3
\* most products in a campaign brief
MaxProducts == 2
MaxWrapLen == 8
MaxThreadCalls == 2

---------------------------------------------------------------------------
(* ImageCompositor: aspect-ratio variants *)

\* ASPECT_RATIOS, each value as <<numerator, denominator>>
ASPECT_RATIOS ==
    [r \in {"1:1", "9:16", "16:9"} |->
        CASE r = "1:1" -> <<1, 1>>
          [] r = "9:16" -> <<9, 16>>
          [] r = "16:9" -> <<16, 9>>]

\* the names a caller may pass: the supported ones and an unsupported one
RatioNames == DOMAIN ASPECT_RATIOS \cup {"4:3"}

\* a freshly decoded source image
NewImage(w, h) == [width |-> w, height |-> h, pixels |-> "source"]

\* Image.crop(box): a new image of the box's size; the source is not touched
Crop(image, box) ==
    [width |-> box[3] - box[1], height |-> box[4] - box[2],
     pixels |-> <<"crop", image.pixels, box>>]

\* a slip: the height is scaled by the ratio instead of divided by it
CropSizeScaled(img_width, img_height, target_ratio) ==
    LET num == target_ratio[1]
        den == target_ratio[2]
    IN  IF img_width * den > img_height * num
        THEN <<(img_height * num) \div den, img_height>>
        ELSE <<img_width, (img_width * num) \div den>>

\* the crop size: current_ratio > target_ratio crops the width, else the height
CropSize(img_width, img_height, target_ratio) ==
    LET num == target_ratio[1]
        den == target_ratio[2]
    IN  IF img_width * den > img_height * num
        THEN <<(img_height * num) \div den, img_height>>
        ELSE <<img_width, (img_width * den) \div num>>

\* a slip: the top is put at 30% of the height, not of the removable margin
CropTopOfHeight(ratio_str, img_height, new_height) ==
    IF ratio_str = "9:16"
    THEN (3 * img_height) \div 10
    ELSE (img_height - new_height) \div 2

\* the top edge of the crop box, by strategy
CropTop(ratio_str, img_height, new_height) ==
    IF ratio_str = "9:16"
    THEN (3 * (img_height - new_height)) \div 10
    ELSE (img_height - new_height) \div 2

\* a slip: the box is cut from the left edge of the source
CropLeftFlush(img_width, new_width) == 0

\* the left edge of the crop box: centred for every strategy
CropLeft(img_width, new_width) == (img_width - new_width) \div 2

\* the crop box (left, top, right, bottom) of _smart_crop
CropBox(img_width, img_height, target_ratio, ratio_str) ==
    LET size == CropSize(img_width, img_height, target_ratio)
        left == CropLeft(img_width, size[1])
        top == CropTop(ratio_str, img_height, size[2])
    IN  <<left, top, left + size[1], top + size[2]>>

\* _smart_crop: the cropped image and the box it was cut with
_smart_crop(image, target_ratio, ratio_str) ==
    LET box == CropBox(image.width, image.height, target_ratio, ratio_str)
    IN  [image |-> Crop(image, box), box |-> box]

\* variants = {}
EmptyMap == [k \in {} |-> Nothing]

\* a mapping with one more key (a repeated key is overwritten)
Put(map, key, value) ==
    [k \in DOMAIN map \cup {key} |-> IF k = key THEN value ELSE map[k]]

\* the loop of create_variants over the ratios still to do
RECURSIVE VariantsLoop(_, _, _)
VariantsLoop(image, ratios, variants) ==
    IF ratios = <<>>
    THEN [outcome |-> "returned", variants |-> Some(variants), error |-> None]
    ELSE LET ratio_str == Head(ratios)
         IN  IF ratio_str \notin DOMAIN ASPECT_RATIOS
             THEN [outcome |-> "raised", variants |-> Nothing, error |-> ratio_str]
             ELSE VariantsLoop(image, Tail(ratios),
                      Put(variants, ratio_str,
                          _smart_crop(image, ASPECT_RATIOS[ratio_str], ratio_str)))

\* list(self.ASPECT_RATIOS.keys())
DefaultRatios == <<"1:1", "9:16", "16:9">>

\* a slip: an unsupported name is skipped and the rest is returned
RECURSIVE VariantsLoopSkipping(_, _, _)
VariantsLoopSkipping(image, ratios, variants) ==
    IF ratios = <<>>
    THEN [outcome |-> "returned", variants |-> Some(variants), error |-> None]
    ELSE LET ratio_str == Head(ratios)
         IN  IF ratio_str \notin DOMAIN ASPECT_RATIOS
             THEN VariantsLoopSkipping(image, Tail(ratios), variants)
             ELSE VariantsLoopSkipping(image, Tail(ratios),
                      Put(variants, ratio_str,
                          _smart_crop(image, ASPECT_RATIOS[ratio_str], ratio_str)))

create_variants_skipping(image, ratios) ==
    LET list == IF ratios.given THEN ratios.value ELSE DefaultRatios
        done == VariantsLoopSkipping(image, list, EmptyMap)
    IN  [outcome |-> done.outcome, variants |-> done.variants,
         error |-> done.error, image |-> image]

\* create_variants: what the caller gets, and the source image after the call
create_variants(image, ratios) ==
    LET list == IF ratios.given THEN ratios.value ELSE DefaultRatios
        done == VariantsLoop(image, list, EmptyMap)
    IN  [outcome |-> done.outcome, variants |-> done.variants,
         error |-> done.error, image |-> image]

SeqsUpTo(S, n) == UNION {[1..k -> S] : k \in 0..n}

\* the ratio lists tried on every source of the exhaustive range
BasicRatioLists == {Nothing} \cup {Some(<<r>>) : r \in RatioNames}

CropIdle ==
    /\ base_image = Nothing /\ image_at_call = Nothing /\ aspect_ratios = Nothing
    /\ cv_pc = "idle" /\ cv_variants = Nothing /\ cv_error = None

InitCrop ==
    /\ \/ /\ \E w \in 1..MaxDim, h \in 1..MaxDim : base_image = NewImage(w, h)
          /\ aspect_ratios \in BasicRatioLists
       \/ /\ \E w \in 1..MaxSmallDim, h \in 1..MaxSmallDim : base_image = NewImage(w, h)
          /\ \E list \in SeqsUpTo(RatioNames, MaxRatios) : aspect_ratios = Some(list)
    /\ image_at_call = base_image
    /\ cv_pc = "ready"
    /\ cv_variants = Nothing
    /\ cv_error = None

CreateVariants ==
    /\ cv_pc = "ready"
    /\ LET call == create_variants(base_image, aspect_ratios)
       IN  /\ cv_pc' = call.outcome
           /\ cv_variants' = call.variants
           /\ cv_error' = call.error
           /\ base_image' = call.image
    /\ UNCHANGED <<image_at_call, aspect_ratios>>


---------------------------------------------------------------------------
(* Claims about create_variants *)

\* the ratio list the call works on
RequestedRatios == IF aspect_ratios.given THEN aspect_ratios.value ELSE DefaultRatios

\* the mapping a returned call handed over
ReturnedVariants == cv_variants.value

\* C1: the crop box (left, top, right, bottom) of every returned variant lies
\* within the source: 0 <= left <= right <= W and 0 <= top <= bottom <= H,
\* and the variant has the size of its box.
C1_CropBoxWithinSource ==
    cv_pc = "returned" =>
        \A r \in DOMAIN ReturnedVariants :
            LET box == ReturnedVariants[r].box
                out == ReturnedVariants[r].image
            IN  /\ 0 <= box[1] /\ box[1] <= box[3] /\ box[3] <= image_at_call.width
                /\ 0 <= box[2] /\ box[2] <= box[4] /\ box[4] <= image_at_call.height
                /\ out.width = box[3] - box[1]
                /\ out.height = box[4] - box[2]

\* C1 witness: all three ratios were cropped from a tall source, and the 9:16
\* box starts below the top edge and ends above the bottom edge.
C1_Witness ==
    /\ cv_pc = "returned"
    /\ DOMAIN ReturnedVariants = DOMAIN ASPECT_RATIOS
    /\ image_at_call.height > 2 * image_at_call.width
    /\ ReturnedVariants["9:16"].box[2] > 0
    /\ ReturnedVariants["9:16"].box[4] < image_at_call.height

\* C20: for every source size W x H and crop size w x h the box of a
\* returned variant is horizontally centred, left = floor((W - w) / 2), for
\* every ratio; for 9:16 its top is at 30% of the removable vertical margin,
\* top = floor(0.3 * (H - h)), and for 1:1 and 16:9 it is vertically centred,
\* top = floor((H - h) / 2).
C20_CropBoxPlacement ==
    cv_pc = "returned" =>
        \A r \in DOMAIN ReturnedVariants :
            LET box == ReturnedVariants[r].box
                W == image_at_call.width
                H == image_at_call.height
                w == ReturnedVariants[r].image.width
                h == ReturnedVariants[r].image.height
            IN  /\ 2 * box[1] <= W - w /\ W - w < 2 * box[1] + 2
                /\ r = "9:16" =>
                      (10 * box[2] <= 3 * (H - h) /\ 3 * (H - h) < 10 * box[2] + 10)
                /\ r \in {"1:1", "16:9"} =>
                      (2 * box[2] <= H - h /\ H - h < 2 * box[2] + 2)

\* C20 witness: all three ratios were cropped from a tall source; the 9:16
\* box starts below the top edge, with a vertical margin that 0.3 does not
\* divide evenly, and the 16:9 box has an odd vertical margin.
C20_Witness ==
    /\ cv_pc = "returned"
    /\ DOMAIN ReturnedVariants = DOMAIN ASPECT_RATIOS
    /\ ReturnedVariants["9:16"].box[2] > 0
    /\ (3 * (image_at_call.height - ReturnedVariants["9:16"].image.height)) % 10 # 0
    /\ (image_at_call.height - ReturnedVariants["16:9"].image.height) % 2 = 1

\* C27 as claimed: every variant create_variants returns for a source that is
\* at least one pixel wide and high is itself at least one pixel wide and
\* high.
C27_VariantsNotEmpty ==
    (cv_pc = "returned" /\ image_at_call.width >= 1 /\ image_at_call.height >= 1) =>
        \A r \in DOMAIN ReturnedVariants :
            /\ ReturnedVariants[r].image.width >= 1
            /\ ReturnedVariants[r].image.height >= 1

\* |w / h - num / den| < 0.01, as the tests measure it; false when h = 0
WithinTolerance(w, h, ratio) ==
    LET num == ratio[1]
        den == ratio[2]
        diff == w * den - num * h
    IN  /\ h > 0
        /\ 100 * (IF diff < 0 THEN -diff ELSE diff) < den * h

\* C2 as claimed: for any source image, every returned variant has its
\* ratio's nominal width/height within 0.01.
C2_RatioWithinToleranceAnySource ==
    cv_pc = "returned" =>
        \A r \in DOMAIN ReturnedVariants :
            WithinTolerance(ReturnedVariants[r].image.width,
                            ReturnedVariants[r].image.height, ASPECT_RATIOS[r])

\* C2 amended: for a source at least 296 wide and 88 high, every returned
\* variant has its ratio's nominal width/height within 0.01.
C2_RatioWithinTolerance ==
    (cv_pc = "returned" /\ image_at_call.width >= 296 /\ image_at_call.height >= 88) =>
        \A r \in DOMAIN ReturnedVariants :
            WithinTolerance(ReturnedVariants[r].image.width,
                            ReturnedVariants[r].image.height, ASPECT_RATIOS[r])

\* C2 witness: a large source whose 16:9 variant was cut in height and is not
\* exactly 16:9.
C2_Witness ==
    /\ cv_pc = "returned"
    /\ image_at_call.width >= 296 /\ image_at_call.height >= 88
    /\ "16:9" \in DOMAIN ReturnedVariants
    /\ ReturnedVariants["16:9"].image.height < image_at_call.height
    /\ 9 * ReturnedVariants["16:9"].image.width # 16 * ReturnedVariants["16:9"].image.height

\* the positions of the unsupported names in the requested list
UnsupportedAt == {i \in DOMAIN RequestedRatios : RequestedRatios[i] \notin DOMAIN ASPECT_RATIOS}

FirstUnsupported == CHOOSE i \in UnsupportedAt : \A j \in UnsupportedAt : i <= j

\* C3: a call whose list holds an unsupported name, wherever it stands, ends
\* in a ValueError that names the (first) unsupported ratio, hands the caller
\* no mapping, and leaves the source image as it was.
C3_UnsupportedRatioFailsWholeCall ==
    (cv_pc # "ready" /\ UnsupportedAt # {}) =>
        /\ cv_pc = "raised"
        /\ cv_error = RequestedRatios[FirstUnsupported]
        /\ cv_variants = Nothing
        /\ base_image = image_at_call

\* C3 witness: the unsupported name came after a supported one.
C3_Witness ==
    /\ cv_pc = "raised"
    /\ Len(RequestedRatios) = 2
    /\ RequestedRatios[1] \in DOMAIN ASPECT_RATIOS
    /\ cv_error = RequestedRatios[2]

---------------------------------------------------------------------------
(* ImageCompositor: font sizing *)

\* The inputs <<base_font_size, img_height>>, for base sizes up to 70 and
\* heights up to 3200, on which the double product
\* base_font_size * (img_height / 1000.0) falls just below the integer that
\* exact arithmetic gives, so that int() returns one less.
FontFloatSlips ==
    {<<25, 1160>>, <<25, 2280>>, <<25, 2320>>, <<45, 1400>>, <<45, 2800>>,
     <<50, 580>>, <<50, 1140>>, <<50, 1160>>, <<50, 2260>>, <<50, 2280>>,
     <<50, 2300>>, <<50, 2320>>, <<60, 2050>>}

\* scaled_size = int(self.base_font_size * scale_factor)
ScaledSize(base, img_height) ==
    (base * img_height) \div 1000
        - (IF <<base, img_height>> \in FontFloatSlips THEN 1 ELSE 0)

Max(a, b) == IF a >= b THEN a ELSE b
Min(a, b) == IF a <= b THEN a ELSE b

\* a slip: the upper bound is forgotten
calculate_font_size_unbounded(base, img_width, img_height) ==
    Max(20, ScaledSize(base, img_height))

\* _calculate_font_size, with self.base_font_size as its first parameter
_calculate_font_size(base, img_width, img_height) ==
    Max(20, Min(ScaledSize(base, img_height), 120))

\* the height of one call differs from the height of the call before by one
\* of these
HeightSteps == {-500, -7, -1, 0, 1, 7, 500}

InitFont ==
    /\ base_font_size \in 0..MaxBaseFont
    /\ fs_height = 0 /\ fs_size = 0
    /\ fs_prev_height = 0 /\ fs_prev_size = 0

\* a call of _calculate_font_size on an image of height h
FontSizeCall(h) ==
    /\ h \in 1..MaxFontHeight
    /\ fs_height' = h
    /\ fs_size' = _calculate_font_size(base_font_size, h, h)
    /\ fs_prev_height' = fs_height
    /\ fs_prev_size' = fs_size
    /\ UNCHANGED base_font_size

CalculateFontSize ==
    IF fs_height = 0
    THEN \E h \in 1..MaxFontHeight : FontSizeCall(h)
    ELSE \E d \in HeightSteps : FontSizeCall(fs_height + d)

\* C5: every size returned lies in [20, 120], and of two calls with the
\* same base size the one with the greater image height returns at least
\* as much as the other.
C5_FontSizeBoundedMonotone ==
    /\ fs_height > 0 => (20 <= fs_size /\ fs_size <= 120)
    /\ (fs_prev_height > 0 /\ fs_prev_height <= fs_height) => fs_prev_size <= fs_size
    /\ (fs_prev_height > 0 /\ fs_prev_height >= fs_height) => fs_prev_size >= fs_size

\* C5 witness: two calls in a row, the second on a higher image, returned
\* different sizes strictly between the bounds.
C5_Witness ==
    /\ fs_prev_height > 0 /\ fs_prev_height < fs_height
    /\ 20 < fs_prev_size /\ fs_prev_size < fs_size /\ fs_size < 120

---------------------------------------------------------------------------
(* ImageCompositor: text overlay *)

\* ImageCompositor(font_size, text_position, padding, background_opacity);
\* the opacity in hundredths
CompositorConfig(font_size, position, padding, opacity) ==
    [base_font_size |-> font_size, text_position |-> position,
     padding |-> padding, background_opacity |-> opacity]

\* common_fonts, the paths tried when the configured family does not load
CommonFonts ==
    <<"/System/Library/Fonts/Helvetica.ttc",
      "/usr/share/fonts/truetype/dejavu/DejaVuSans.ttf",
      "C:\\Windows\\Fonts\\arial.ttf", "Arial.ttf", "Helvetica.ttf">>

\* what ImageFont.truetype can load on a machine: the configured family or
\* not, and the places in common_fonts of the paths that load
FontsOn(family, fallbacks) == [family |-> family, fallbacks |-> fallbacks]
AllFonts == FontsOn(TRUE, DOMAIN CommonFonts)
NoFonts == FontsOn(FALSE, {})

\* a slip: without the configured family the OSError goes to the caller
load_font_family_only(fonts, font_size) ==
    IF fonts.family THEN [kind |-> "family", path |-> 0, size |-> font_size]
    ELSE [kind |-> "raised", path |-> 0, size |-> font_size]

\* _load_font: the configured family at the size asked for, else the first
\* path of common_fonts that loads, else ImageFont.load_default(), whose
\* size is fixed
_load_font(fonts, font_size) ==
    IF fonts.family THEN [kind |-> "family", path |-> 0, size |-> font_size]
    ELSE IF fonts.fallbacks # {}
    THEN [kind |-> "fallback",
          path |-> CHOOSE p \in fonts.fallbacks : \A q \in fonts.fallbacks : p <= q,
          size |-> font_size]
    ELSE [kind |-> "default", path |-> 0, size |-> 11]

\* the advance of one character in a font: half its size
GlyphWidth(font) == font.size \div 2

\* draw.textbbox((0, 0), line, font): bbox[2] - bbox[0]
LineWidth(line, font) == Len(line) * GlyphWidth(font)

\* text.split(): the maximal runs of characters that are not whitespace
RECURSIVE SplitWords(_, _)
SplitWords(text, current) ==
    IF text = <<>>
    THEN IF current = <<>> THEN <<>> ELSE <<current>>
    ELSE IF Head(text) \in {" ", "\n"}
         THEN (IF current = <<>> THEN <<>> ELSE <<current>>)
                  \o SplitWords(Tail(text), <<>>)
         ELSE SplitWords(Tail(text), Append(current, Head(text)))

\* sep.join(parts)
RECURSIVE Join(_, _)
Join(parts, sep) ==
    IF parts = <<>> THEN <<>>
    ELSE IF Len(parts) = 1 THEN parts[1]
    ELSE parts[1] \o <<sep>> \o Join(Tail(parts), sep)

\* a slip: a word that fits exactly is moved to the next line
RECURSIVE WrapLoopStrict(_, _, _, _, _)
WrapLoopStrict(words, lines, current_line, font, max_width) ==
    IF words = <<>>
    THEN IF current_line # <<>> THEN Append(lines, Join(current_line, " ")) ELSE lines
    ELSE LET word == Head(words)
             test_line == Join(Append(current_line, word), " ")
         IN  IF LineWidth(test_line, font) < max_width
             THEN WrapLoopStrict(Tail(words), lines, Append(current_line, word),
                                 font, max_width)
             ELSE WrapLoopStrict(Tail(words),
                                 IF current_line # <<>>
                                 THEN Append(lines, Join(current_line, " "))
                                 ELSE lines,
                                 <<word>>, font, max_width)

\* the loop of _wrap_text over the words still to place
RECURSIVE WrapLoop(_, _, _, _, _)
WrapLoop(words, lines, current_line, font, max_width) ==
    IF words = <<>>
    THEN IF current_line # <<>> THEN Append(lines, Join(current_line, " ")) ELSE lines
    ELSE LET word == Head(words)
             test_line == Join(Append(current_line, word), " ")
         IN  IF LineWidth(test_line, font) <= max_width
             THEN WrapLoop(Tail(words), lines, Append(current_line, word),
                           font, max_width)
             ELSE WrapLoop(Tail(words),
                           IF current_line # <<>>
                           THEN Append(lines, Join(current_line, " "))
                           ELSE lines,
                           <<word>>, font, max_width)

\* a slip: only the first line is kept
wrap_text_first_line(text, font, max_width) ==
    LET lines == WrapLoop(SplitWords(text, <<>>), <<>>, <<>>, font, max_width)
    IN  IF lines = <<>> THEN <<>> ELSE lines[1]

\* _wrap_text: the text with newlines inserted
_wrap_text(text, font, max_width) ==
    Join(WrapLoop(SplitWords(text, <<>>), <<>>, <<>>, font, max_width), "\n")

\* the characters of the texts wrapped: a letter, a blank and a newline
WrapChars == {"a", " ", "\n"}

\* the widths the wrapped text has to fit in; image_width - 2 * padding is
\* negative for an image narrower than its padding
WrapWidths == {-1, 0, 2, 3, 5}

InitWrap ==
    /\ wr_text \in SeqsUpTo(WrapChars, MaxWrapLen)
    /\ \E size \in {2, 4} : wr_font = [kind |-> "family", path |-> 0, size |-> size]
    /\ wr_max_width \in WrapWidths
    /\ wr_pc = "ready"
    /\ wr_result = <<>>

\* a call of _wrap_text
WrapText ==
    /\ wr_pc = "ready"
    /\ wr_result' = _wrap_text(wr_text, wr_font, wr_max_width)
    /\ wr_pc' = "returned"
    /\ UNCHANGED <<wr_text, wr_font, wr_max_width>>

\* text.split("\n"): the lines of a multiline text; "" has one empty line
RECURSIVE SplitLines(_, _)
SplitLines(text, current) ==
    IF text = <<>> THEN <<current>>
    ELSE IF Head(text) = "\n"
         THEN <<current>> \o SplitLines(Tail(text), <<>>)
         ELSE SplitLines(Tail(text), Append(current, Head(text)))

RECURSIVE MaxLineWidth(_, _)
MaxLineWidth(lines, font) ==
    IF lines = <<>> THEN 0
    ELSE Max(LineWidth(Head(lines), font), MaxLineWidth(Tail(lines), font))

\* draw.multiline_textbbox((0, 0), wrapped_text, font): <<width, height>>;
\* a line is as high as the font, lines are 4 pixels apart, and a text
\* without characters has an empty box
TextSize(wrapped_text, font) ==
    IF wrapped_text = <<>> THEN <<0, 0>>
    ELSE LET lines == SplitLines(wrapped_text, <<>>)
         IN  <<MaxLineWidth(lines, font),
               Len(lines) * font.size + (Len(lines) - 1) * 4>>

\* text_y for the position in force
TextY(pos, img_height, text_height, padding) ==
    IF pos = "bottom" THEN img_height - text_height - padding * 2
    ELSE IF pos = "top" THEN padding * 2
    ELSE (img_height - text_height) \div 2

\* the inputs on which the double opacity falls just below its hundredth,
\* so that int(opacity * 255) is one less: 0.6 - 0.2
OpacityFloatSlips == {<<"dark", 60>>}

\* bg_alpha = int(opacity * 255)
BgAlpha(opacity, branch, base) ==
    (opacity * 255) \div 100 - (IF <<branch, base>> \in OpacityFloatSlips THEN 1 ELSE 0)

\* what both overlay methods compute before they draw
OverlayLayout(config, fonts, image, text, position) ==
    LET pos == IF position # None THEN position ELSE config.text_position
        scaled_font_size ==
            _calculate_font_size(config.base_font_size, image.width, image.height)
        font == _load_font(fonts, scaled_font_size)
        wrapped_text == _wrap_text(text, font, image.width - config.padding * 2)
        size == TextSize(wrapped_text, font)
        text_x == (image.width - size[1]) \div 2
        text_y == TextY(pos, image.height, size[2], config.padding)
    IN  [font_size |-> scaled_font_size, font |-> font,
         wrapped_text |-> wrapped_text,
         text_width |-> size[1], text_height |-> size[2],
         text_x |-> text_x, text_y |-> text_y,
         panel |-> <<text_x - config.padding, text_y - config.padding,
                     text_x + size[1] + config.padding,
                     text_y + size[2] + config.padding>>]

\* the image both methods return: the copy, converted to RGBA, with the
\* panel composited and the text drawn on it
Composite(image, layout, alpha) ==
    [width |-> image.width, height |-> image.height, mode |-> "RGBA",
     pixels |-> <<"overlay", image.pixels, layout.panel, alpha,
                  layout.wrapped_text, <<layout.text_x, layout.text_y>>>>]

\* add_text_overlay: the image returned, what was computed, and the input
\* image after the call
add_text_overlay(config, fonts, image, text, position) ==
    LET layout == OverlayLayout(config, fonts, image, text, position)
        bg_alpha == BgAlpha(config.background_opacity, "base", config.background_opacity)
    IN  [outcome |-> "returned",
         result |-> Some(Composite(image, layout, bg_alpha)),
         trace |-> Some([layout |-> layout, opacity |-> config.background_opacity,
                         alpha |-> bg_alpha]),
         image |-> image]

\* a slip: the thresholds count as bright and as dark themselves
ensure_contrast_inclusive(config, brightness, text_region, zero_mean) ==
    IF text_region[3] <= text_region[1] \/ text_region[4] <= text_region[2]
    THEN [raised |-> TRUE, opacity |-> 0, branch |-> "none"]
    ELSE IF brightness >= 180
    THEN [raised |-> FALSE, branch |-> "bright",
          opacity |-> Min(config.background_opacity + 30, 90)]
    ELSE IF brightness >= 120
    THEN [raised |-> FALSE, branch |-> "mid",
          opacity |-> Min(config.background_opacity + 15, 80)]
    ELSE IF brightness <= 60
    THEN [raised |-> FALSE, branch |-> "dark",
          opacity |-> Max(config.background_opacity - 20, 30)]
    ELSE [raised |-> FALSE, branch |-> "base", opacity |-> config.background_opacity]

\* a slip: the adjusted opacity is not capped
ensure_contrast_uncapped(config, brightness, text_region, zero_mean) ==
    IF text_region[3] <= text_region[1] \/ text_region[4] <= text_region[2]
    THEN [raised |-> TRUE, opacity |-> 0, branch |-> "none"]
    ELSE IF brightness > 180
    THEN [raised |-> FALSE, branch |-> "bright",
          opacity |-> Min(config.background_opacity + 30, 100)]
    ELSE IF brightness > 120
    THEN [raised |-> FALSE, branch |-> "mid",
          opacity |-> Min(config.background_opacity + 15, 80)]
    ELSE IF brightness < 60
    THEN [raised |-> FALSE, branch |-> "dark",
          opacity |-> Max(config.background_opacity - 20, 0)]
    ELSE [raised |-> FALSE, branch |-> "base", opacity |-> config.background_opacity]

\* _ensure_contrast on the text region: Image.crop raises on a box whose
\* right or lower edge lies before its left or upper edge; the mean of a
\* region without pixels divides by zero, or is 0 where ImageStat guards
\* the division (zero_mean says which)
_ensure_contrast(config, brightness, text_region, zero_mean) ==
    IF text_region[3] < text_region[1] \/ text_region[4] < text_region[2]
    THEN [raised |-> TRUE, opacity |-> 0, branch |-> "none"]
    ELSE IF (text_region[3] = text_region[1] \/ text_region[4] = text_region[2])
            /\ zero_mean = "raise"
    THEN [raised |-> TRUE, opacity |-> 0, branch |-> "none"]
    ELSE LET avg_brightness ==
                 IF text_region[3] = text_region[1] \/ text_region[4] = text_region[2]
                 THEN 0 ELSE brightness
         IN  IF avg_brightness > 180
             THEN [raised |-> FALSE, branch |-> "bright",
                   opacity |-> Min(config.background_opacity + 30, 90)]
             ELSE IF avg_brightness > 120
             THEN [raised |-> FALSE, branch |-> "mid",
                   opacity |-> Min(config.background_opacity + 15, 80)]
             ELSE IF avg_brightness < 60
             THEN [raised |-> FALSE, branch |-> "dark",
                   opacity |-> Max(config.background_opacity - 20, 30)]
             ELSE [raised |-> FALSE, branch |-> "base",
                   opacity |-> config.background_opacity]

\* add_text_overlay_with_contrast: as add_text_overlay, with the panel's
\* opacity taken from _ensure_contrast
add_text_overlay_with_contrast(config, fonts, image, brightness, text, position, zero_mean) ==
    LET layout == OverlayLayout(config, fonts, image, text, position)
        text_region == <<Max(0, layout.panel[1]), Max(0, layout.panel[2]),
                         Min(image.width, layout.panel[3]),
                         Min(image.height, layout.panel[4])>>
        contrast == _ensure_contrast(config, brightness, text_region, zero_mean)
        bg_alpha == BgAlpha(contrast.opacity, contrast.branch, config.background_opacity)
    IN  IF contrast.raised
        THEN [outcome |-> "raised", result |-> Nothing,
              trace |-> Some([layout |-> layout, text_region |-> text_region]),
              image |-> image]
        ELSE [outcome |-> "returned",
              result |-> Some(Composite(image, layout, bg_alpha)),
              trace |-> Some([layout |-> layout, text_region |-> text_region,
                              opacity |-> contrast.opacity, alpha |-> bg_alpha]),
              image |-> image]

\* the widths and heights of the images given to the overlay
OverlayWidths == {30, 100, 400}
OverlayHeights == 1..MaxOverlayHeight \cup {1000}

\* configured paddings
Paddings == {0, 20}

\* the position argument
PositionArgs == {None, "top", "center", "bottom"}

\* mean brightness of the image under the panel
Brightnesses == {0, 60, 120, 121, 181}

InitOverlay ==
    /\ \E padding \in Paddings : ov_config = CompositorConfig(48, "bottom", padding, 60)
    /\ \E w \in OverlayWidths, h \in OverlayHeights :
          ov_image = [width |-> w, height |-> h, mode |-> "RGB", pixels |-> "variant"]
    /\ ov_image_at_call = ov_image
    /\ ov_text \in SeqsUpTo({"a", " "}, MaxOverlayText)
    /\ ov_position \in PositionArgs
    /\ ov_brightness \in Brightnesses
    /\ ov_fonts \in {AllFonts, NoFonts}
    /\ ov_pc = "ready"
    /\ ov_method = None
    /\ ov_result = Nothing
    /\ ov_trace = Nothing

AddTextOverlay ==
    /\ ov_pc = "ready"
    /\ LET call == add_text_overlay(ov_config, ov_fonts, ov_image, ov_text, ov_position)
       IN  /\ ov_pc' = call.outcome
           /\ ov_result' = call.result
           /\ ov_trace' = call.trace
           /\ ov_image' = call.image
    /\ ov_method' = "add_text_overlay"
    /\ UNCHANGED <<ov_config, ov_image_at_call, ov_text, ov_position, ov_brightness,
                   ov_fonts>>

AddTextOverlayWithContrast ==
    /\ ov_pc = "ready"
    /\ \E zero_mean \in {"raise", "zero"} :
          LET call == add_text_overlay_with_contrast(ov_config, ov_fonts, ov_image,
                          ov_brightness, ov_text, ov_position, zero_mean)
          IN  /\ ov_pc' = call.outcome
              /\ ov_result' = call.result
              /\ ov_trace' = call.trace
              /\ ov_image' = call.image
    /\ ov_method' = "add_text_overlay_with_contrast"
    /\ UNCHANGED <<ov_config, ov_image_at_call, ov_text, ov_position, ov_brightness,
                   ov_fonts>>

\* configured base opacities, in hundredths
BaseOpacities == 0 .. 100

\* mean brightness of the panel region, at and around the thresholds
ContrastBrightnesses == {0, 59, 60, 120, 121, 180, 181, 255}

\* overlay calls for every base opacity and brightness
InitContrast ==
    /\ \E opacity \in BaseOpacities : ov_config = CompositorConfig(48, "bottom", 20, opacity)
    /\ \E h \in {10, 1000} :
          ov_image = [width |-> 400, height |-> h, mode |-> "RGB", pixels |-> "variant"]
    /\ ov_image_at_call = ov_image
    /\ ov_text \in {<<"a">>, <<"a", " ", "a">>}
    /\ ov_position \in {None, "top"}
    /\ ov_brightness \in ContrastBrightnesses
    /\ ov_fonts = AllFonts
    /\ ov_pc = "ready"
    /\ ov_method = None
    /\ ov_result = Nothing
    /\ ov_trace = Nothing

\* the machines an overlay is rendered on, by the fonts they have
FontSetups ==
    {FontsOn(family, fallbacks) :
        family \in BOOLEAN, fallbacks \in {{}, {2}, {5}, {2, 4}, {1, 3, 5}}}

\* overlay calls on machines with every font setup
InitFontLoad ==
    /\ ov_config = CompositorConfig(48, "bottom", 20, 60)
    /\ \E h \in {10, 20, 21, 1000} :
          ov_image = [width |-> 100, height |-> h, mode |-> "RGB", pixels |-> "variant"]
    /\ ov_image_at_call = ov_image
    /\ ov_text \in {<<>>, <<"a">>, <<"a", " ", "a">>}
    /\ ov_position \in PositionArgs
    /\ ov_brightness = 121
    /\ ov_fonts \in FontSetups
    /\ ov_pc = "ready"
    /\ ov_method = None
    /\ ov_result = Nothing
    /\ ov_trace = Nothing

---------------------------------------------------------------------------
(* Claims about the text overlay *)

\* C4 as claimed: every call of add_text_overlay and of
\* add_text_overlay_with_contrast returns an image as wide and as high as
\* the input, and the input image is after the call what it was before.
C4_OverlayKeepsSizeAndInput ==
    ov_pc # "ready" =>
        /\ ov_pc = "returned"
        /\ ov_result.given
        /\ ov_result.value.width = ov_image_at_call.width
        /\ ov_result.value.height = ov_image_at_call.height
        /\ ov_image = ov_image_at_call

\* the font _load_font has to return on the machine: the family, else the
\* first of the common paths that loads, else the default font
ExpectedFontKind ==
    IF ov_fonts.family THEN "family"
    ELSE IF ov_fonts.fallbacks # {} THEN "fallback"
    ELSE "default"

\* the region whose brightness the contrast variant measures has no pixel
EmptyTextRegion ==
    LET r == ov_trace.value.text_region
    IN  r[3] <= r[1] \/ r[4] <= r[2]

\* C16: on every machine _load_font returns a font: the configured family
\* if it loads, else the first path of common_fonts that loads, else the
\* built-in default; so no overlay call fails for a missing font:
\* add_text_overlay returns, and add_text_overlay_with_contrast raises only
\* where the region it measures is empty, whatever the fonts are.
C16_MissingFontNeverFails ==
    ov_pc \notin {"idle", "ready"} =>
        LET font == ov_trace.value.layout.font
        IN  /\ font.kind = ExpectedFontKind
            /\ font.kind = "fallback" =>
                  /\ font.path \in ov_fonts.fallbacks
                  /\ \A p \in ov_fonts.fallbacks : font.path <= p
            /\ ov_method = "add_text_overlay" => ov_pc = "returned"
            /\ ov_pc = "raised" => EmptyTextRegion
            /\ ov_pc = "returned" =>
                  /\ ov_result.value.width = ov_image_at_call.width
                  /\ ov_result.value.height = ov_image_at_call.height

\* C16 witness: no font could be loaded, the default font was used, and the
\* contrast overlay returned.
C16_Witness ==
    /\ ov_pc = "returned"
    /\ ov_method = "add_text_overlay_with_contrast"
    /\ ov_fonts = NoFonts
    /\ ov_trace.value.layout.font.kind = "default"
    /\ ov_text # <<>>

\* the lines of the string _wrap_text returned; the empty string has none
WrappedLines == IF wr_result = <<>> THEN <<>> ELSE SplitLines(wr_result, <<>>)

\* the words of the text given, as text.split() finds them
InputWords == SplitWords(wr_text, <<>>)

\* C21: every line of the output of _wrap_text either is no wider than the
\* maximum width or consists of exactly one word; an overlong word stands
\* alone on a line, whole; and packing is greedy: the first word of a line
\* would not have fitted at the end of the line before it.
C21_LinesFitOrSingleWord ==
    wr_pc = "returned" =>
        /\ \A i \in DOMAIN WrappedLines :
              LET line == WrappedLines[i]
                  words == SplitWords(line, <<>>)
              IN  /\ LineWidth(line, wr_font) <= wr_max_width \/ Len(words) = 1
                  /\ i > 1 =>
                        LineWidth(WrappedLines[i - 1] \o <<" ">> \o words[1], wr_font)
                            > wr_max_width
        /\ \A k \in DOMAIN InputWords :
              LineWidth(InputWords[k], wr_font) > wr_max_width =>
                  \E i \in DOMAIN WrappedLines : WrappedLines[i] = InputWords[k]

\* C21 witness: a text of three words was wrapped onto two lines, the first
\* an overlong word alone, the second two words filling the exact width.
C21_Witness ==
    /\ wr_pc = "returned"
    /\ Len(InputWords) = 3
    /\ Len(WrappedLines) = 2
    /\ LineWidth(WrappedLines[1], wr_font) > wr_max_width
    /\ LineWidth(WrappedLines[2], wr_font) = wr_max_width
    /\ Len(SplitWords(WrappedLines[2], <<>>)) = 2

\* the words of all lines, in order
RECURSIVE WordsOfLines(_)
WordsOfLines(lines) ==
    IF lines = <<>> THEN <<>>
    ELSE SplitWords(Head(lines), <<>>) \o WordsOfLines(Tail(lines))

\* C29: _wrap_text preserves the words of its input: splitting the output on
\* whitespace gives the words of the input, in the same order, none dropped,
\* duplicated or split; the output has no empty line; and a text that is
\* empty or only whitespace gives the empty string.
C29_WrapPreservesWords ==
    wr_pc = "returned" =>
        /\ SplitWords(wr_result, <<>>) = InputWords
        /\ WordsOfLines(WrappedLines) = InputWords
        /\ \A i \in DOMAIN WrappedLines : WrappedLines[i] # <<>>
        /\ (\A k \in DOMAIN wr_text : wr_text[k] \in {" ", "\n"}) => wr_result = <<>>

\* C29 witness: a text with leading, doubled and trailing whitespace and two
\* different words was wrapped onto two lines.
C29_Witness ==
    /\ wr_pc = "returned"
    /\ wr_text = <<" ", "a", "\n", " ", "a", "a", " ">>
    /\ wr_result = <<"a", "\n", "a", "a">>

\* an add_text_overlay_with_contrast call returned, having measured a region
\* with pixels
ContrastMeasured ==
    /\ ov_pc = "returned"
    /\ ov_method = "add_text_overlay_with_contrast"
    /\ ~EmptyTextRegion

BaseOpacity == ov_config.background_opacity

\* C22: for base opacity b and mean brightness v of the panel region the
\* opacity is min(b + 0.30, 0.90) when v > 180, min(b + 0.15, 0.80) when
\* 120 < v <= 180, max(b - 0.20, 0.30) when v < 60 and b when 60 <= v <= 120;
\* v is the brightness of the image as it was given, before the panel is
\* drawn on it.
C22_OpacityByBrightness ==
    ContrastMeasured =>
        LET v == ov_brightness
            b == BaseOpacity
            opacity == ov_trace.value.opacity
        IN  /\ v > 180 => opacity = (IF b + 30 < 90 THEN b + 30 ELSE 90)
            /\ (120 < v /\ v <= 180) => opacity = (IF b + 15 < 80 THEN b + 15 ELSE 80)
            /\ v < 60 => opacity = (IF b - 20 > 30 THEN b - 20 ELSE 30)
            /\ (60 <= v /\ v <= 120) => opacity = b
            /\ ov_result.value.pixels[2] = ov_image_at_call.pixels

\* C22 witness: a region of brightness exactly 180 under a base opacity of
\* 0.70 got the moderate adjustment at its cap of 0.80.
C22_Witness ==
    /\ ContrastMeasured
    /\ ov_brightness = 180
    /\ BaseOpacity = 70
    /\ ov_trace.value.opacity = 80

\* C23 as stated: for every base opacity the opacity returned is above it for
\* a bright region and below it for a dark region.
C23_StrictlyAdjusted ==
    ContrastMeasured =>
        /\ ov_brightness > 180 => ov_trace.value.opacity > BaseOpacity
        /\ ov_brightness < 60 => ov_trace.value.opacity < BaseOpacity

\* C23: for a bright region (brightness above 180) the opacity returned is
\* above the base opacity exactly when the base is below the cap of 0.90, and
\* is 0.90 otherwise; for a dark region (below 60) it is below the base
\* exactly when the base is above the floor of 0.30, and is 0.30 otherwise.
C23_AdjustedUpToCaps ==
    ContrastMeasured =>
        LET b == BaseOpacity
            opacity == ov_trace.value.opacity
        IN  /\ ov_brightness > 180 =>
                  /\ opacity > b <=> b < 90
                  /\ b >= 90 => opacity = 90
            /\ ov_brightness < 60 =>
                  /\ opacity < b <=> b > 30
                  /\ b <= 30 => opacity = 30

\* C23 witness: under a base opacity of 1.0 a bright region got 0.90, less
\* than the base.
C23_Witness ==
    /\ ContrastMeasured
    /\ ov_brightness = 181
    /\ BaseOpacity = 100
    /\ ov_trace.value.opacity = 90

\* what add_text_overlay makes of the arguments of the call
PlainOverlay ==
    add_text_overlay(ov_config, ov_fonts, ov_image_at_call, ov_text, ov_position)

\* the same output but for the alpha of the panel
SameButAlpha(x, y) ==
    /\ x.width = y.width /\ x.height = y.height /\ x.mode = y.mode
    /\ \A k \in {1, 2, 3, 5, 6} : x.pixels[k] = y.pixels[k]

\* the call computed the layout add_text_overlay computes and its output is
\* that of add_text_overlay but for the panel's alpha, and the same where the
\* brightness is between 60 and 120
SameAsPlainOverlay ==
    /\ ov_trace.value.layout = PlainOverlay.trace.value.layout
    /\ SameButAlpha(ov_result.value, PlainOverlay.result.value)
    /\ (60 <= ov_brightness /\ ov_brightness <= 120) =>
          ov_result.value = PlainOverlay.result.value

\* C28 as claimed: for the same image, text, position and configuration
\* add_text_overlay_with_contrast computes the font size, wrapped text, text
\* position and panel of add_text_overlay, and gives its output but for the
\* panel's alpha, the very same output for a brightness from 60 to 120.
C28_ContrastOverlayEquivalent ==
    (ov_method = "add_text_overlay_with_contrast" /\ ov_pc # "ready") =>
        /\ ov_pc = "returned"
        /\ SameAsPlainOverlay

\* what holds of C28: where the call returns, it is equivalent
C28_EquivalentWhereReturned == ContrastMeasured => SameAsPlainOverlay

---------------------------------------------------------------------------
(* ComplianceChecker: legal check *)

UpperCase == <<"A", "B", "C", "D", "E", "F", "G", "H", "I", "J", "K", "L", "M",
               "N", "O", "P", "Q", "R", "S", "T", "U", "V", "W", "X", "Y", "Z">>
LowerCase == <<"a", "b", "c", "d", "e", "f", "g", "h", "i", "j", "k", "l", "m",
               "n", "o", "p", "q", "r", "s", "t", "u", "v", "w", "x", "y", "z">>
Digits == {"0", "1", "2", "3", "4", "5", "6", "7", "8", "9"}

Range(f) == {f[i] : i \in DOMAIN f}

\* the characters \w matches
IsWordChar(c) == c \in Range(UpperCase) \cup Range(LowerCase) \cup Digits \cup {"_"}

LowerChar(c) ==
    IF c \in Range(UpperCase)
    THEN LowerCase[CHOOSE i \in DOMAIN UpperCase : UpperCase[i] = c]
    ELSE c

\* str.lower()
Lower(str) == [i \in DOMAIN str |-> LowerChar(str[i])]

\* \b at position p of str (between character p and character p + 1): one
\* side is a word character and the other is not; beyond either end of the
\* string there is no word character
WordBoundary(str, p) ==
    LET before == p >= 1 /\ IsWordChar(str[p])
        after == p + 1 <= Len(str) /\ IsWordChar(str[p + 1])
    IN  before # after

\* the literal word stands in str right after position p
OccursAt(word, str, p) ==
    /\ p + Len(word) <= Len(str)
    /\ \A k \in 1..Len(word) : str[p + k] = word[k]

\* the positions at which r'\b' + re.escape(word) + r'\b' matches in str
BoundedMatches(word, str) ==
    {p \in 0..Len(str) :
        /\ WordBoundary(str, p)
        /\ OccursAt(word, str, p)
        /\ WordBoundary(str, p + Len(word))}

\* re.search(r'\b' + re.escape(word.lower()) + r'\b', text.lower())
TermMatches(word, text) == BoundedMatches(Lower(word), Lower(text)) # {}

\* self.legal_config.severity_levels.get(word, "warning")
SeverityOf(config, word) ==
    IF word \in DOMAIN config.severity_levels
    THEN config.severity_levels[word]
    ELSE "warning"

\* f"Prohibited word '{word}' found (severity: {severity})"
ViolationMsg(word, severity) == [word |-> word, severity |-> severity]

\* a slip: one message for every occurrence of the word
RECURSIVE LegalViolationsPerOccurrence(_, _, _)
LegalViolationsPerOccurrence(config, words, text) ==
    IF words = <<>> THEN <<>>
    ELSE LET word == Head(words)
             n == Cardinality(BoundedMatches(Lower(word), Lower(text)))
         IN  [i \in 1..n |-> ViolationMsg(word, SeverityOf(config, word))]
                 \o LegalViolationsPerOccurrence(config, Tail(words), text)

\* the loop over prohibited_words: the violation messages, in order
RECURSIVE LegalViolations(_, _, _)
LegalViolations(config, words, text) ==
    IF words = <<>> THEN <<>>
    ELSE LET word == Head(words)
             rest == LegalViolations(config, Tail(words), text)
         IN  IF TermMatches(word, text)
             THEN <<ViolationMsg(word, SeverityOf(config, word))>> \o rest
             ELSE rest

\* a slip: only a blocking term makes the check fail
LegalVerdictBlockingOnly(violations) ==
    \A i \in DOMAIN violations : violations[i].severity # "blocking"

\* passed: False if there is a violation, True otherwise
LegalVerdict(violations) == violations = <<>>

\* check_legal_compliance: the ComplianceResult
check_legal_compliance(config, text) ==
    IF config.prohibited_words = <<>>
    THEN [passed |-> TRUE,
          details |-> [kind |-> "No prohibited words configured", count |-> 0],
          violations |-> <<>>]
    ELSE LET violations == LegalViolations(config, config.prohibited_words, text)
         IN  [passed |-> LegalVerdict(violations),
              details |-> IF violations # <<>>
                          THEN [kind |-> "Found prohibited term(s)",
                                count |-> Len(violations)]
                          ELSE [kind |-> "No prohibited terms found",
                                count |-> Len(config.prohibited_words)],
              violations |-> violations]

\* LegalConfig(prohibited_words, severity_levels)
LegalConfig(words, severities) ==
    [prohibited_words |-> words, severity_levels |-> severities]

\* the characters of the texts of the exhaustive range
TextChars == {"a", "A", "b", "%", " "}

\* the prohibited words of the exhaustive range
Terms == {<<"a">>, <<"A">>, <<"b">>, <<"a", "%">>}

Severities == {"warning", "blocking"}

\* the severity mappings of the exhaustive range
SeverityMaps == UNION {[keys -> Severities] : keys \in SUBSET {<<"a">>}}

\* the texts of the tests
ExampleTexts ==
    {<<"T", "h", "i", "s", " ", "i", "s", " ", "f", "r", "e", "e">>,
     <<"F", "R", "E", "E">>,
     <<"F", "r", "e", "e">>,
     <<"F", "r", "e", "e", "d", "o", "m", " ", "i", "s", " ", "i",
       "m", "p", "o", "r", "t", "a", "n", "t">>,
     <<"G", "e", "t", " ", "i", "t", " ", "f", "o", "r", " ", "f",
       "r", "e", "e", " ", "a", "n", "d", " ", "g", "u", "a", "r",
       "a", "n", "t", "e", "e", " ", "s", "u", "c", "c", "e", "s",
       "s">>}

\* the configuration of the tests
ExampleLegalConfig ==
    LET guarantee == <<"g", "u", "a", "r", "a", "n", "t", "e", "e">>
        free == <<"f", "r", "e", "e">>
    IN  LegalConfig(<<guarantee, free>>,
            [w \in {guarantee, free} |-> IF w = guarantee THEN "blocking" ELSE "warning"])

InitLegal ==
    /\ \/ /\ \E words \in SeqsUpTo(Terms, MaxTerms), sev \in SeverityMaps :
                legal_config = LegalConfig(words, sev)
          /\ lg_text \in SeqsUpTo(TextChars, MaxTextLen)
       \/ /\ legal_config = ExampleLegalConfig
          /\ lg_text \in ExampleTexts
    /\ lg_pc = "ready"
    /\ lg_result = Nothing

CheckLegalCompliance ==
    /\ lg_pc = "ready"
    /\ lg_pc' = "returned"
    /\ lg_result' = check_legal_compliance(legal_config, lg_text)
    /\ UNCHANGED <<legal_config, lg_text>>

---------------------------------------------------------------------------
(* Claims about check_legal_compliance *)

\* the entries of prohibited_words that the check flagged
FlaggedWords == {lg_result.violations[j].word : j \in DOMAIN lg_result.violations}

\* an occurrence of word in text, compared without case, that is neither
\* directly preceded nor directly followed by a word character
WholeWordOccurrence(word, text) ==
    LET w == Lower(word)
        t == Lower(text)
    IN  \E p \in 0..Len(t) :
            /\ OccursAt(w, t, p)
            /\ ~(p >= 1 /\ IsWordChar(t[p]))
            /\ ~(p + Len(w) + 1 <= Len(t) /\ IsWordChar(t[p + Len(w) + 1]))

\* C6 as claimed: a configured term is flagged iff the text holds an
\* occurrence of it, compared without case, that is neither directly
\* preceded nor directly followed by a word character.
C6_FlaggedIffWholeWord ==
    lg_pc = "returned" =>
        \A k \in DOMAIN legal_config.prohibited_words :
            LET word == legal_config.prohibited_words[k]
            IN  (word \in FlaggedWords) <=> WholeWordOccurrence(word, lg_text)

\* the entries of prohibited_words that match the text
MatchedEntries ==
    {k \in DOMAIN legal_config.prohibited_words :
        TermMatches(legal_config.prohibited_words[k], lg_text)}

\* C7: passed is true iff no configured term matched, and iff the violation
\* list is empty; with no configured term the check passes with no violation.
C7_PassedIffNoMatch ==
    lg_pc = "returned" =>
        /\ lg_result.passed <=> (MatchedEntries = {})
        /\ lg_result.passed <=> (lg_result.violations = <<>>)
        /\ legal_config.prohibited_words = <<>> =>
               (lg_result.passed /\ lg_result.violations = <<>>)

\* C7 witness: a check with a configured term that matched did not pass.
C7_Witness ==
    /\ lg_pc = "returned"
    /\ MatchedEntries # {}
    /\ ~lg_result.passed
    /\ \E j \in DOMAIN lg_result.violations : lg_result.violations[j].severity = "warning"

\* C8: there is exactly one violation message per entry of prohibited_words
\* that matches, however often it occurs in the text; each message carries
\* its term and the severity mapped to that term, "warning" when none is.
C8_OneViolationPerMatchedTerm ==
    lg_pc = "returned" =>
        /\ Len(lg_result.violations) = Cardinality(MatchedEntries)
        /\ FlaggedWords = {legal_config.prohibited_words[k] : k \in MatchedEntries}
        /\ \A j \in DOMAIN lg_result.violations :
              LET msg == lg_result.violations[j]
              IN  msg.severity =
                      IF msg.word \in DOMAIN legal_config.severity_levels
                      THEN legal_config.severity_levels[msg.word]
                      ELSE "warning"
        /\ (legal_config = ExampleLegalConfig /\ lg_text = <<"G", "e", "t", " ", "i", "t", " ", "f", "o", "r", " ", "f",
                  "r", "e", "e", " ", "a", "n", "d", " ", "g", "u", "a", "r",
                  "a", "n", "t", "e", "e", " ", "s", "u", "c", "c", "e", "s",
                  "s">>) =>
              /\ Len(lg_result.violations) = 2
              /\ {lg_result.violations[j].severity : j \in {1, 2}} = Severities

\* C8 witness: a term occurred twice in the text and was reported once, and
\* a term without a severity mapping was reported as a warning.
C8_Witness ==
    /\ lg_pc = "returned"
    /\ \E k \in MatchedEntries :
          LET word == legal_config.prohibited_words[k]
          IN  /\ Cardinality(BoundedMatches(Lower(word), Lower(lg_text))) = 2
              /\ word \notin DOMAIN legal_config.severity_levels
    /\ Len(lg_result.violations) = 1
    /\ lg_result.violations[1].severity = "warning"

---------------------------------------------------------------------------
(* ComplianceChecker: brand check *)

\* BrandConfig(logo_template_path, brand_colors, min_logo_confidence); the
\* confidence in hundredths, the colours as hex strings
BrandConfig(path, colors, confidence) ==
    [logo_template_path |-> path, brand_colors |-> colors,
     min_logo_confidence |-> confidence]

\* what the file at logo_template_path can be: absent; an RGB image
\* ("readable"; "modified" is the file with other content); something
\* Image.open cannot read; a greyscale image, which Image.open reads and
\* np.array decodes to two dimensions, on which cv2.cvtColor(.., RGB2BGR)
\* raises
LogoFiles == {"missing", "readable", "modified", "unreadable", "grayscale"}
RgbLogoFiles == {"readable", "modified"}

\* width and height of the logo template
LogoSize == <<3, 3>>

\* what Image.open and cv2.cvtColor make of an RGB logo file
LogoTemplate(file) == [pixels |-> file, size |-> LogoSize]

\* a slip: the file is read whether or not the cache is filled
load_logo_template_uncached(config, cache, file) ==
    IF config.logo_template_path # None /\ file # "missing"
    THEN IF file \in RgbLogoFiles
         THEN [raised |-> FALSE, template |-> Some(LogoTemplate(file)),
               cache |-> Some(LogoTemplate(file)),
               opened |-> TRUE, loaded |-> TRUE]
         ELSE [raised |-> TRUE, template |-> Nothing, cache |-> cache,
               opened |-> TRUE, loaded |-> FALSE]
    ELSE [raised |-> FALSE, template |-> cache, cache |-> cache,
          opened |-> FALSE, loaded |-> FALSE]

\* BrandConfig.load_logo_template: the template returned, the cache after the
\* call, whether the call raised, whether it opened the file and whether it
\* filled the cache
load_logo_template(config, cache, file) ==
    IF ~cache.given /\ config.logo_template_path # None
    THEN IF file # "missing"
         THEN IF file \in RgbLogoFiles
              THEN [raised |-> FALSE, template |-> Some(LogoTemplate(file)),
                    cache |-> Some(LogoTemplate(file)),
                    opened |-> TRUE, loaded |-> TRUE]
              ELSE [raised |-> TRUE, template |-> Nothing, cache |-> cache,
                    opened |-> TRUE, loaded |-> FALSE]
         ELSE [raised |-> FALSE, template |-> cache, cache |-> cache,
               opened |-> FALSE, loaded |-> FALSE]
    ELSE [raised |-> FALSE, template |-> cache, cache |-> cache,
          opened |-> FALSE, loaded |-> FALSE]

\* the call made no load_logo_template
NoLoad(cache) ==
    [raised |-> FALSE, template |-> Nothing, cache |-> cache,
     opened |-> FALSE, loaded |-> FALSE, called |-> FALSE]

\* cv2.matchTemplate raises when the template is wider or higher than the
\* image
TemplateFits(image, template) ==
    /\ template.size[1] <= image.size[1]
    /\ template.size[2] <= image.size[2]

\* _detect_logo: whether the logo was detected, whether the call raised, and
\* what its load_logo_template did; image.logo_score is max_val in
\* hundredths
_detect_logo(config, cache, file, image) ==
    IF config.logo_template_path = None
    THEN [raised |-> FALSE, detected |-> FALSE, load |-> NoLoad(cache)]
    ELSE LET load == load_logo_template(config, cache, file)
                         @@ [called |-> TRUE]
         IN  IF load.raised
             THEN [raised |-> TRUE, detected |-> FALSE, load |-> load]
             ELSE IF ~load.template.given
                  THEN [raised |-> FALSE, detected |-> FALSE, load |-> load]
                  ELSE IF ~TemplateFits(image, load.template.value)
                  THEN [raised |-> TRUE, detected |-> FALSE, load |-> load]
                  ELSE [raised |-> FALSE,
                        detected |-> image.logo_score >= config.min_logo_confidence,
                        load |-> load]

\* the digits of '{:02x}'.format(n).upper()
HexDigits == <<"0", "1", "2", "3", "4", "5", "6", "7", "8", "9",
               "A", "B", "C", "D", "E", "F">>
LowerHexDigits == <<"0", "1", "2", "3", "4", "5", "6", "7", "8", "9",
                    "a", "b", "c", "d", "e", "f">>

\* '{:02x}'.format(n).upper() for n in 0..255
HexByte(n) == <<HexDigits[(n \div 16) + 1], HexDigits[(n % 16) + 1]>>

\* '#{:02x}{:02x}{:02x}'.format(r, g, b).upper()
HexColor(rgb) == <<"#">> \o HexByte(rgb[1]) \o HexByte(rgb[2]) \o HexByte(rgb[3])

\* the value of a hex digit in either case, -1 for any other character
HexValue(c) ==
    IF \E k \in 1..16 : HexDigits[k] = c
    THEN (CHOOSE k \in 1..16 : HexDigits[k] = c) - 1
    ELSE IF \E k \in 1..16 : LowerHexDigits[k] = c
    THEN (CHOOSE k \in 1..16 : LowerHexDigits[k] = c) - 1
    ELSE -1

\* color.lstrip('#')
RECURSIVE LStripHash(_)
LStripHash(color) ==
    IF color # <<>> /\ Head(color) = "#" THEN LStripHash(Tail(color)) ELSE color

\* s[i:i+2] for the 0-based index i
Slice2(s, i) ==
    IF i >= Len(s) THEN <<>> ELSE SubSeq(s, i + 1, Min(i + 2, Len(s)))

\* int(digits, 16) for one or two characters: -1 where it raises ValueError
IntBase16(digits) ==
    IF digits = <<>> \/ \E k \in DOMAIN digits : HexValue(digits[k]) < 0 THEN -1
    ELSE IF Len(digits) = 1 THEN HexValue(digits[1])
    ELSE 16 * HexValue(digits[1]) + HexValue(digits[2])

\* tuple(int(color.lstrip('#')[i:i+2], 16) for i in (0, 2, 4))
HexToRgb(color) ==
    LET hex == LStripHash(color)
        rgb == <<IntBase16(Slice2(hex, 0)), IntBase16(Slice2(hex, 2)),
                 IntBase16(Slice2(hex, 4))>>
    IN  [raised |-> \E k \in 1..3 : rgb[k] < 0, rgb |-> rgb]

\* sum((a - b) ** 2 for a, b in zip(rgb1, rgb2))
SquaredDistance(rgb1, rgb2) ==
    (rgb1[1] - rgb2[1]) * (rgb1[1] - rgb2[1])
        + (rgb1[2] - rgb2[2]) * (rgb1[2] - rgb2[2])
        + (rgb1[3] - rgb2[3]) * (rgb1[3] - rgb2[3])

\* a slip: the distance has to be less than the tolerance
color_match_strict(color1, color2, tolerance) ==
    LET rgb1 == HexToRgb(color1)
        rgb2 == HexToRgb(color2)
    IN  IF rgb1.raised \/ rgb2.raised
        THEN [raised |-> TRUE, match |-> FALSE]
        ELSE [raised |-> FALSE,
              match |-> /\ tolerance > 0
                        /\ SquaredDistance(rgb1.rgb, rgb2.rgb) < tolerance * tolerance]

\* _color_match: np.sqrt(d2) <= tolerance, for an integer tolerance, is
\* d2 <= tolerance * tolerance when the tolerance is not negative
_color_match(color1, color2, tolerance) ==
    LET rgb1 == HexToRgb(color1)
        rgb2 == HexToRgb(color2)
    IN  IF rgb1.raised \/ rgb2.raised
        THEN [raised |-> TRUE, match |-> FALSE]
        ELSE [raised |-> FALSE,
              match |-> /\ tolerance >= 0
                        /\ SquaredDistance(rgb1.rgb, rgb2.rgb) <= tolerance * tolerance]

\* the tolerance _color_match has when none is passed
DefaultTolerance == 30

\* n_colors, the number of clusters
NColors == 5

\* img_small.thumbnail((100, 100)) leaves at least n_colors pixels: KMeans
\* raises ValueError when it is given fewer samples than clusters
EnoughSamples(image) ==
    \/ image.size[1] > 100
    \/ image.size[2] > 100
    \/ image.size[1] * image.size[2] >= NColors

\* _analyze_colors: the centres of the five clusters as upper-case hex
\* strings; image.centroids holds int(center[k]) of each centre
_analyze_colors(image) ==
    IF ~EnoughSamples(image)
    THEN [raised |-> TRUE, colors |-> <<>>]
    ELSE [raised |-> FALSE,
          colors |-> [k \in DOMAIN image.centroids |-> HexColor(image.centroids[k])]]

\* any(_color_match(color, brand_color) for color in colors_present
\*                                      for brand_color in brand_colors),
\* from the pair (i, j) on: "found" at the first match, "raised" at the
\* first colour that does not parse
RECURSIVE AnyColorMatch(_, _, _, _)
AnyColorMatch(colors_present, brand_colors, i, j) ==
    IF i > Len(colors_present) THEN "not_found"
    ELSE IF j > Len(brand_colors)
    THEN AnyColorMatch(colors_present, brand_colors, i + 1, 1)
    ELSE LET m == _color_match(colors_present[i], brand_colors[j], DefaultTolerance)
         IN  IF m.raised THEN "raised"
             ELSE IF m.match THEN "found"
             ELSE AnyColorMatch(colors_present, brand_colors, i, j + 1)

\* the colour sub-check: "skipped" without brand colours, else "found",
\* "not_found" or "raised"
BrandColorsFound(config, image) ==
    IF config.brand_colors = <<>> THEN "skipped"
    ELSE LET present == _analyze_colors(image)
         IN  IF present.raised THEN "raised"
             ELSE AnyColorMatch(present.colors, config.brand_colors, 1, 1)

\* a slip: the logo violation does not ask whether a logo is configured
BrandViolationsLogoAlways(config, logo_detected, brand_colors_found) ==
    (IF ~logo_detected
     THEN <<[check |-> "logo", msg |-> "Brand logo not detected in image"]>>
     ELSE <<>>)
    \o
    (IF brand_colors_found = "not_found"
     THEN <<[check |-> "colors", msg |-> "Brand colors not found"]>>
     ELSE <<>>)

\* the violations list: the logo message, then the colour message
BrandViolations(config, logo_detected, brand_colors_found) ==
    (IF config.logo_template_path # None /\ ~logo_detected
     THEN <<[check |-> "logo", msg |-> "Brand logo not detected in image"]>>
     ELSE <<>>)
    \o
    (IF brand_colors_found = "not_found"
     THEN <<[check |-> "colors", msg |-> "Brand colors not found"]>>
     ELSE <<>>)

\* the details_parts list
BrandDetails(config, logo_detected, brand_colors_found) ==
    (IF config.logo_template_path # None
     THEN IF logo_detected THEN <<"Logo detected in image">>
                           ELSE <<"Logo detection failed">>
     ELSE <<>>)
    \o
    (IF brand_colors_found = "found" THEN <<"Brand colors detected">>
     ELSE IF brand_colors_found = "not_found" THEN <<"Brand color validation failed">>
     ELSE <<>>)

\* check_brand_compliance: the ComplianceResult (nothing when the call
\* raised) and what its load_logo_template did
check_brand_compliance(config, cache, file, image) ==
    LET logo == _detect_logo(config, cache, file, image)
        brand_colors_found ==
            IF logo.raised THEN "skipped" ELSE BrandColorsFound(config, image)
    IN  IF logo.raised \/ brand_colors_found = "raised"
        THEN [outcome |-> "raised", result |-> Nothing, load |-> logo.load]
        ELSE LET violations == BrandViolations(config, logo.detected, brand_colors_found)
                 details_parts == BrandDetails(config, logo.detected, brand_colors_found)
             IN  [outcome |-> "returned",
                  result |->
                      [passed |-> Len(violations) = 0,
                       details |-> IF details_parts # <<>> THEN details_parts
                                   ELSE <<"No brand compliance checks configured">>,
                       violations |-> violations],
                  load |-> logo.load]

Red == <<255, 0, 0>>
Green == <<0, 255, 0>>

\* cluster centres: a red at distance 30 of the brand red and one at 31
CentroidColors == {<<225, 0, 0>>, <<224, 0, 0>>}

\* configured brand colours: red (in lower case), green, and two strings
\* that are not hex colours
BrandColorChoices ==
    {<<"#", "f", "f", "0", "0", "0", "0">>, HexColor(Green),
     <<"#", "F", "F", "F">>, <<"r", "e", "d">>}

\* the sizes of the images under check
BrandImageSizes == {<<2, 2>>, <<1, 5>>, <<3, 3>>, <<1080, 1080>>}

\* max_val of the template match, in hundredths
LogoScores == {0, 69, 70}

\* configured min_logo_confidence, in hundredths
Confidences == {50, 70}

\* the images under check
BrandImages ==
    {[logo_score |-> score, centroids |-> centroids, size |-> size] :
        score \in LogoScores, centroids \in [1..NColors -> CentroidColors],
        size \in BrandImageSizes}

InitBrand ==
    /\ \E path \in {None, "logo.png"},
          colors \in SeqsUpTo(BrandColorChoices, MaxBrandColors),
          confidence \in Confidences :
            brand_config = BrandConfig(path, colors, confidence)
    /\ logo_template = Nothing
    /\ IF brand_config.logo_template_path = None
       THEN logo_file = "missing"
       ELSE logo_file \in LogoFiles \ {"modified"}
    /\ br_image \in BrandImages
    /\ br_pc = "ready"
    /\ br_result = Nothing
    /\ br_calls = 0 /\ logo_opens = 0 /\ logo_loads = 0
    /\ logo_returned = Nothing

\* what a call leaves in the cache and in the counters
LogoEffects(load) ==
    /\ logo_template' = load.cache
    /\ logo_opens' = logo_opens + (IF load.opened THEN 1 ELSE 0)
    /\ logo_loads' = logo_loads + (IF load.loaded THEN 1 ELSE 0)
    /\ logo_returned' = IF load.called /\ ~load.raised
                        THEN Some(load.template) ELSE Nothing
    /\ br_calls' = br_calls + 1

CheckBrandCompliance ==
    /\ br_pc = "ready"
    /\ br_calls < MaxBrandCalls
    /\ LET call == check_brand_compliance(brand_config, logo_template, logo_file, br_image)
       IN  /\ br_pc' = call.outcome
           /\ br_result' = call.result
           /\ LogoEffects(call.load)
    /\ UNCHANGED <<brand_config, logo_file, br_image>>

\* a direct call of brand_config.load_logo_template()
LoadLogoTemplate ==
    /\ br_calls < MaxBrandCalls
    /\ LogoEffects(load_logo_template(brand_config, logo_template, logo_file)
                       @@ [called |-> TRUE])
    /\ UNCHANGED <<brand_config, logo_file, br_image, br_pc, br_result>>

\* the images of the calls that share one BrandConfig
CacheImages ==
    {[logo_score |-> score, centroids |-> [k \in 1..NColors |-> <<224, 0, 0>>],
      size |-> LogoSize] : score \in {0, 70}}

\* the caller turns to the next image with the same checker
NextImage ==
    /\ br_pc \in {"returned", "raised"}
    /\ br_pc' = "ready"
    /\ br_image' \in CacheImages
    /\ br_result' = Nothing
    /\ UNCHANGED <<brand_config, logo_template, logo_file, br_calls, logo_opens,
                   logo_loads, logo_returned>>

\* between two calls the file is written, replaced or deleted
ChangeLogoFile ==
    /\ logo_file' \in LogoFiles \ {logo_file}
    /\ UNCHANGED <<brand_config, logo_template, br_image, br_pc, br_result,
                   br_calls, logo_opens, logo_loads, logo_returned>>

\* one BrandConfig with a logo path, before its first call
InitLogoCache ==
    /\ brand_config = BrandConfig("logo.png", <<>>, 70)
    /\ logo_template = Nothing
    /\ logo_file \in LogoFiles \ {"modified"}
    /\ br_image \in CacheImages
    /\ br_pc = "ready"
    /\ br_result = Nothing
    /\ br_calls = 0 /\ logo_opens = 0 /\ logo_loads = 0
    /\ logo_returned = Nothing

---------------------------------------------------------------------------
(* Claims about check_brand_compliance *)

LogoConfigured == brand_config.logo_template_path # None

ColorsConfigured == brand_config.brand_colors # <<>>

\* the logo sub-check passes: the template is there and matches well enough
LogoSubcheckPassed ==
    /\ logo_file = "readable"
    /\ br_image.logo_score >= brand_config.min_logo_confidence

\* the colour sub-check passes: a cluster centre is within distance 30 of a
\* brand colour
ColorSubcheckPassed ==
    \E i \in 1..NColors, j \in DOMAIN brand_config.brand_colors :
        LET c == br_image.centroids[i]
            b == HexToRgb(brand_config.brand_colors[j])
        IN  /\ ~b.raised
            /\ (c[1] - b.rgb[1]) * (c[1] - b.rgb[1])
                   + (c[2] - b.rgb[2]) * (c[2] - b.rgb[2])
                   + (c[3] - b.rgb[3]) * (c[3] - b.rgb[3]) <= 900

\* the configured sub-checks that failed
FailedSubchecks ==
    (IF LogoConfigured /\ ~LogoSubcheckPassed THEN {"logo"} ELSE {})
        \cup (IF ColorsConfigured /\ ~ColorSubcheckPassed THEN {"colors"} ELSE {})

\* C9: the result passes iff every configured sub-check passed (one that is
\* not configured counts as passed); violations holds exactly one message
\* per failed sub-check, so passed iff violations is empty; with neither a
\* logo nor colours configured the check returns passed with no violation.
C9_BrandPassedIffSubchecksPassed ==
    /\ br_pc = "returned" =>
          /\ br_result.passed <=> (FailedSubchecks = {})
          /\ Len(br_result.violations) = Cardinality(FailedSubchecks)
          /\ {br_result.violations[j].check : j \in DOMAIN br_result.violations}
                 = FailedSubchecks
          /\ br_result.passed <=> (br_result.violations = <<>>)
    /\ (br_pc # "ready" /\ ~LogoConfigured /\ ~ColorsConfigured) =>
          /\ br_pc = "returned"
          /\ br_result.passed
          /\ br_result.violations = <<>>

\* C9 witness: both sub-checks were configured and only the colours failed.
C9_Witness ==
    /\ br_pc = "returned"
    /\ LogoConfigured /\ ColorsConfigured
    /\ LogoSubcheckPassed /\ ~ColorSubcheckPassed
    /\ ~br_result.passed
    /\ Len(br_result.violations) = 1

\* C10 as claimed: with a logo path configured and the file absent or
\* unreadable, the check returns, reports no logo violation, and passes
\* whenever the colour sub-check passes or is not configured.
C10_MissingLogoIsSkipped ==
    (br_pc # "ready" /\ LogoConfigured /\ logo_file # "readable") =>
        /\ br_pc = "returned"
        /\ \A j \in DOMAIN br_result.violations : br_result.violations[j].check # "logo"
        /\ (~ColorsConfigured \/ ColorSubcheckPassed) => br_result.passed

---------------------------------------------------------------------------
(* Claims about the logo cache *)

\* a step that is a call on the BrandConfig
BrandCallStep == br_calls' = br_calls + 1

\* once the cache is filled, a step leaves it as it is, opens no file, and a
\* call returns the cached template
CacheKept ==
    logo_template.given =>
        /\ logo_template' = logo_template
        /\ logo_opens' = logo_opens
        /\ logo_loads' = logo_loads
        /\ BrandCallStep => logo_returned' = Some(logo_template)

---------------------------------------------------------------------------
(* ComplianceChecker._color_match on its own *)

\* the values of a colour channel
ChannelValues == {0, 30, 31, 255}

\* the tolerances passed
Tolerances == {0, 1, 29, 30, 31, 32, 441, 442}

\* the hex string in lower case
LowerHex(color) ==
    [k \in DOMAIN color |->
        IF \E d \in 1..16 : HexDigits[d] = color[k]
        THEN LowerHexDigits[CHOOSE d \in 1..16 : HexDigits[d] = color[k]]
        ELSE color[k]]

\* a caller writes a colour as "#FF0000", "#ff0000" or "FF0000"
InitColorMatch ==
    /\ cm_rgb1 \in ChannelValues \X ChannelValues \X ChannelValues
    /\ cm_rgb2 \in ChannelValues \X ChannelValues \X ChannelValues
    /\ cm_color1 \in {HexColor(cm_rgb1), LowerHex(HexColor(cm_rgb1))}
    /\ cm_color2 \in {HexColor(cm_rgb2), Tail(HexColor(cm_rgb2))}
    /\ cm_tolerance \in Tolerances
    /\ cm_pc = "ready"
    /\ cm_result = FALSE

ColorMatch ==
    /\ cm_pc = "ready"
    /\ LET call == _color_match(cm_color1, cm_color2, cm_tolerance)
       IN  /\ cm_pc' = IF call.raised THEN "raised" ELSE "returned"
           /\ cm_result' = call.match
    /\ UNCHANGED <<cm_rgb1, cm_rgb2, cm_color1, cm_color2, cm_tolerance>>

---------------------------------------------------------------------------
(* Claims about _color_match *)

\* the squared Euclidean distance of the two colours spelled
ColorDistance2 ==
    (cm_rgb1[1] - cm_rgb2[1]) * (cm_rgb1[1] - cm_rgb2[1])
        + (cm_rgb1[2] - cm_rgb2[2]) * (cm_rgb1[2] - cm_rgb2[2])
        + (cm_rgb1[3] - cm_rgb2[3]) * (cm_rgb1[3] - cm_rgb2[3])

\* C12: for hex colours and a tolerance >= 0, _color_match returns, its
\* value is true exactly when the Euclidean RGB distance of the two colours
\* is at most the tolerance (so false whenever it is greater, and true for
\* identical strings), and the two colours in the other order give the
\* same value.
C12_ColorMatchIffWithinTolerance ==
    cm_pc \notin {"idle", "ready"} =>
        /\ cm_pc = "returned"
        /\ cm_result <=> (ColorDistance2 <= cm_tolerance * cm_tolerance)
        /\ cm_color1 = cm_color2 => cm_result
        /\ _color_match(cm_color2, cm_color1, cm_tolerance).match = cm_result

\* C12 witness: two different colours exactly as far apart as the tolerance
\* matched.
C12_Witness ==
    /\ cm_pc = "returned"
    /\ cm_tolerance = 30
    /\ ColorDistance2 = 900
    /\ cm_color1 # cm_color2
    /\ cm_result

---------------------------------------------------------------------------
(* Claims about the colour sub-check and about raising *)

\* tolerances a Brand Configuration might ask for
ConfigurableTolerances == {10, 30, 50}

\* a cluster centre is within distance t of a brand colour
CentroidWithin(t) ==
    \E i \in 1..NColors, j \in DOMAIN brand_config.brand_colors :
        LET c == br_image.centroids[i]
            b == HexToRgb(brand_config.brand_colors[j])
        IN  /\ ~b.raised
            /\ (c[1] - b.rgb[1]) * (c[1] - b.rgb[1])
                   + (c[2] - b.rgb[2]) * (c[2] - b.rgb[2])
                   + (c[3] - b.rgb[3]) * (c[3] - b.rgb[3]) <= t * t

\* the result reports no colour violation
NoColorViolation ==
    \A j \in DOMAIN br_result.violations : br_result.violations[j].check # "colors"

\* C13 as claimed: whatever colour-match tolerance is configured, the
\* colour sub-check passes iff a cluster centre is within that distance of
\* a configured brand colour.
C13_ColorSubcheckWithinConfiguredTolerance ==
    \A t \in ConfigurableTolerances :
        (br_pc = "returned" /\ ColorsConfigured) =>
            (NoColorViolation <=> CentroidWithin(t))

\* "#" and six hex digits
WellFormedHexColor(color) ==
    /\ Len(color) = 7
    /\ color[1] = "#"
    /\ \A k \in 2..7 : \E d \in 1..16 : color[k] \in {HexDigits[d], LowerHexDigits[d]}

\* a configuration whose colours are hex colours and whose logo file, if
\* there is one, is an image that can be read
WellFormedBrandConfig ==
    /\ \A j \in DOMAIN brand_config.brand_colors :
            WellFormedHexColor(brand_config.brand_colors[j])
    /\ logo_file # "unreadable"

\* C14 as claimed, for check_brand_compliance: for every image with at
\* least one pixel and every well-formed configuration the call returns a
\* ComplianceResult, and a missing logo or a colour mismatch is reported as
\* passed = false with a violation.
C14_BrandCheckNeverRaises ==
    (br_pc \notin {"idle", "ready"} /\ WellFormedBrandConfig
        /\ br_image.size[1] >= 1 /\ br_image.size[2] >= 1) =>
            /\ br_pc = "returned"
            /\ FailedSubchecks # {} =>
                   (~br_result.passed /\ br_result.violations # <<>>)

---------------------------------------------------------------------------
(* PipelineOrchestrator *)

\* the hero image of a product: found in the input directory or generated
HeroImage == NewImage(1024, 1024) @@ [mode |-> "RGB"]

\* the compositor the orchestrator builds when text_overlay is not configured
DefaultCompositor == CompositorConfig(48, "bottom", 20, 60)

\* the campaign message
CampaignMessage == <<"a", " ", "a">>

\* the keys of the variants mapping in the order .items() yields them: the
\* order in which the names first stand in the list
RECURSIVE KeyOrder(_, _)
KeyOrder(ratios, seen) ==
    IF ratios = <<>> THEN seen
    ELSE IF \E k \in DOMAIN seen : seen[k] = Head(ratios)
         THEN KeyOrder(Tail(ratios), seen)
         ELSE KeyOrder(Tail(ratios), Append(seen, Head(ratios)))

\* an entry of the log of files written and checks run
Event(kind, index, ratio, verdict) ==
    [kind |-> kind, index |-> index, ratio |-> ratio, verdict |-> verdict]

\* a slip: the legal verdict is not folded into the status
ComplianceStatusBrandOnly(brand, legal) ==
    IF brand = "raised" THEN Nothing
    ELSE Some([passed |-> brand = "passed",
               violations |->
                   (IF brand = "failed" THEN <<"brand">> ELSE <<>>)
                   \o (IF legal = "failed" THEN <<"legal">> ELSE <<>>)])

\* step 5 of _process_product with a compliance checker: the brand result
\* with the legal result folded in; nothing when the brand check raised
ComplianceStatus(brand, legal) ==
    IF brand = "raised" THEN Nothing
    ELSE Some([passed |-> brand = "passed" /\ legal = "passed",
               violations |->
                   (IF brand = "failed" THEN <<"brand">> ELSE <<>>)
                   \o (IF legal = "failed" THEN <<"legal">> ELSE <<>>)])

\* the checks step 5 runs, as events
ComplianceEvents(index, ratio, brand, legal) ==
    IF brand = "raised" THEN <<Event("brand_check", index, ratio, "raised")>>
    ELSE <<Event("brand_check", index, ratio, brand),
           Event("legal_check", index, ratio, legal)>>

\* the loop of _process_product over the variants still to do; ext holds,
\* per ratio, whether save_asset succeeds and what the brand check does
RECURSIVE VariantLoop(_, _, _, _, _, _, _, _)
VariantLoop(config, index, product, was_generated, legal, todo, ext, acc) ==
    IF todo = <<>>
    THEN [outcome |-> "returned", outputs |-> acc.outputs, events |-> acc.events,
          cause |-> None]
    ELSE LET aspect_ratio == Head(todo)
             final == add_text_overlay(DefaultCompositor, NoFonts,
                          acc.variants[aspect_ratio].image @@ [mode |-> "RGB"],
                          CampaignMessage, None)
         IN  IF final.outcome = "raised"
             THEN [outcome |-> "raised", outputs |-> <<>>, events |-> acc.events,
                   cause |-> "overlay"]
             ELSE IF ext[aspect_ratio].save = "raises"
             THEN [outcome |-> "raised", outputs |-> <<>>, events |-> acc.events,
                   cause |-> "save"]
             ELSE LET saved == Event("save", index, aspect_ratio, "written")
                      status == IF config.compliance
                                THEN ComplianceStatus(ext[aspect_ratio].brand, legal)
                                ELSE Nothing
                      checks == IF config.compliance
                                THEN ComplianceEvents(index, aspect_ratio,
                                         ext[aspect_ratio].brand, legal)
                                ELSE <<>>
                      asset == [product_id |-> product.product_id,
                                index |-> index,
                                aspect_ratio |-> aspect_ratio,
                                was_generated |-> was_generated,
                                compliance_status |-> status]
                  IN  VariantLoop(config, index, product, was_generated, legal,
                          Tail(todo), ext,
                          [variants |-> acc.variants,
                           outputs |-> Append(acc.outputs, asset),
                           events |-> acc.events \o <<saved>> \o checks])

\* _process_product: the assets it returns, or that it raised and why, and
\* the files it wrote and checks it ran on the way
_process_product(config, index, product, legal, generation, ext) ==
    IF ~product.has_asset /\ ~config.genai
    THEN [outcome |-> "raised", outputs |-> <<>>, events |-> <<>>, cause |-> "no_client"]
    ELSE IF ~product.has_asset /\ generation = "raises"
    THEN [outcome |-> "raised", outputs |-> <<>>, events |-> <<>>, cause |-> "generation"]
    ELSE LET made == create_variants(HeroImage, Some(config.aspect_ratios))
         IN  IF made.outcome = "raised"
             THEN [outcome |-> "raised", outputs |-> <<>>, events |-> <<>>,
                   cause |-> "ratio"]
             ELSE VariantLoop(config, index, product, ~product.has_asset, legal,
                      KeyOrder(config.aspect_ratios, <<>>), ext,
                      [variants |-> made.variants.value, outputs |-> <<>>,
                       events |-> <<>>])

\* the error message of run for a product that failed
ProductError(product, cause) ==
    [kind |-> "product", product_id |-> product.product_id, cause |-> cause]

\* the error message of run's outer handler
PipelineError == [kind |-> "pipeline", product_id |-> None, cause |-> "run"]

\* a slip: a failing product is passed over without an error
RunStepSilent(outputs, errors, product, processed) ==
    IF processed.outcome = "raised"
    THEN [outputs |-> outputs, errors |-> errors]
    ELSE [outputs |-> outputs \o processed.outputs, errors |-> errors]

\* one turn of run's loop over the products: outputs and errors after it
RunStep(outputs, errors, product, processed) ==
    IF processed.outcome = "raised"
    THEN [outputs |-> outputs,
          errors |-> Append(errors, ProductError(product, processed.cause))]
    ELSE [outputs |-> outputs \o processed.outputs, errors |-> errors]

\* the PipelineResult of run
PipelineResult(campaign_id, outputs, success, errors) ==
    [campaign_id |-> campaign_id, outputs |-> outputs, success |-> success,
     errors |-> errors]

\* what save_asset and check_brand_compliance can do for a variant
VariantOutcomes ==
    [save : {"ok", "raises"}, brand : {"passed", "failed", "raised"}]

\* configured aspect ratio lists: none, one, two, one twice, one unsupported
PipelineRatioLists ==
    {<<>>, <<"1:1">>, <<"1:1", "16:9">>, <<"1:1", "1:1">>, <<"1:1", "4:3">>}

\* the products of a brief
Products == [product_id : {"p1", "p2"}, has_asset : BOOLEAN]

InitPipeline ==
    /\ pl_config \in [aspect_ratios : PipelineRatioLists, compliance : BOOLEAN,
                      genai : BOOLEAN]
    /\ \/ pl_brief = [valid |-> FALSE, products |-> <<>>]
       \/ \E products \in SeqsUpTo(Products, MaxProducts) \ {<<>>} :
              pl_brief = [valid |-> TRUE, products |-> products]
    /\ pl_legal \in {"passed", "failed"}
    /\ pl_pc = "ready"
    /\ pl_next = 1
    /\ pl_outputs = <<>> /\ pl_errors = <<>> /\ pl_events = <<>> /\ pl_done = <<>>
    /\ pl_result = Nothing

\* run, up to its loop: the brief is parsed and validated
StartRun ==
    /\ pl_pc = "ready"
    /\ IF pl_brief.valid
       THEN /\ pl_pc' = "products"
            /\ UNCHANGED <<pl_errors, pl_result>>
       ELSE /\ pl_pc' = "returned"
            /\ pl_errors' = Append(pl_errors, PipelineError)
            /\ pl_result' = Some(PipelineResult("unknown", pl_outputs, FALSE,
                                                pl_errors'))
    /\ UNCHANGED <<pl_config, pl_brief, pl_legal, pl_next, pl_outputs, pl_events,
                   pl_done>>

\* one turn of run's loop: a product is processed
ProcessProduct ==
    /\ pl_pc = "products"
    /\ pl_next <= Len(pl_brief.products)
    /\ \E generation \in {"ok", "raises"},
          ext \in [{pl_config.aspect_ratios[k] : k \in DOMAIN pl_config.aspect_ratios}
                       -> VariantOutcomes] :
          LET product == pl_brief.products[pl_next]
              processed == _process_product(pl_config, pl_next, product, pl_legal,
                                            generation, ext)
              step == RunStep(pl_outputs, pl_errors, product, processed)
          IN  /\ pl_outputs' = step.outputs
              /\ pl_errors' = step.errors
              /\ pl_events' = pl_events \o processed.events
              /\ pl_done' = Append(pl_done, processed.outcome = "raised")
    /\ pl_next' = pl_next + 1
    /\ UNCHANGED <<pl_config, pl_brief, pl_legal, pl_pc, pl_result>>

\* run, after its loop: the result is made and the report written; when the
\* report cannot be written the outer handler makes the result
FinishRun ==
    /\ pl_pc = "products"
    /\ pl_next > Len(pl_brief.products)
    /\ \E report \in {"ok", "raises"} :
          IF report = "ok"
          THEN /\ pl_result' = Some(PipelineResult("campaign", pl_outputs,
                                       Len(pl_outputs) > 0 /\ Len(pl_errors) = 0,
                                       pl_errors))
               /\ UNCHANGED pl_errors
          ELSE /\ pl_errors' = Append(pl_errors, PipelineError)
               /\ pl_result' = Some(PipelineResult("unknown", pl_outputs, FALSE,
                                                   pl_errors'))
    /\ pl_pc' = "returned"
    /\ UNCHANGED <<pl_config, pl_brief, pl_legal, pl_next, pl_outputs, pl_events,
                   pl_done>>

---------------------------------------------------------------------------
(* Claims about the pipeline *)

\* the event at place k says the variant's file was written
IsSave(k) == pl_events[k].kind = "save"

\* a check of the given kind of the same variant ran before place k
CheckedBefore(kind, k) ==
    \E i \in 1..(k - 1) :
        /\ pl_events[i].kind = kind
        /\ pl_events[i].index = pl_events[k].index
        /\ pl_events[i].ratio = pl_events[k].ratio

\* C15 as claimed: with compliance checking enabled, the brand check and
\* the legal check of a variant have run before the variant is written to
\* the output directory.
C15_ChecksRunBeforeWrite ==
    pl_config.compliance =>
        \A k \in DOMAIN pl_events :
            IsSave(k) => (CheckedBefore("brand_check", k) /\ CheckedBefore("legal_check", k))

\* the configured aspect ratios
ConfiguredRatios == {pl_config.aspect_ratios[k] : k \in DOMAIN pl_config.aspect_ratios}

\* the outputs of the product at place i of the brief
OutputsOf(i) == {k \in DOMAIN pl_outputs : pl_outputs[k].index = i}

IsProductError(e) == e.kind = "product"

\* the product_ids of the products that failed, in the order of the brief
RECURSIVE FailedIds(_)
FailedIds(i) ==
    IF i > Len(pl_done) THEN <<>>
    ELSE (IF pl_done[i] THEN <<pl_brief.products[i].product_id>> ELSE <<>>)
             \o FailedIds(i + 1)

\* the product_ids the product errors name, in the order of the errors
RECURSIVE NamedIds(_)
NamedIds(errors) ==
    IF errors = <<>> THEN <<>>
    ELSE <<Head(errors).product_id>> \o NamedIds(Tail(errors))

\* C17: run processes every product of a valid brief, also after a product
\* failed; a failing product adds exactly one error, which names its
\* product_id, and no output; a succeeding product adds one output per
\* configured aspect ratio; success is true iff there is an output and no
\* error.
C17_EveryProductProcessed ==
    /\ (pl_pc = "returned" /\ pl_brief.valid) => Len(pl_done) = Len(pl_brief.products)
    /\ NamedIds(SelectSeq(pl_errors, IsProductError)) = FailedIds(1)
    /\ \A i \in DOMAIN pl_done :
          IF pl_done[i]
          THEN OutputsOf(i) = {}
          ELSE /\ Cardinality(OutputsOf(i)) = Cardinality(ConfiguredRatios)
               /\ \A r \in ConfiguredRatios :
                      \E k \in OutputsOf(i) : pl_outputs[k].aspect_ratio = r
    /\ pl_result.given =>
          /\ pl_result.value.outputs = pl_outputs
          /\ pl_result.value.errors = pl_errors
          /\ pl_result.value.success <=> (Len(pl_outputs) > 0 /\ Len(pl_errors) = 0)

\* C17 witness: the first of two products failed, the second gave its two
\* outputs, and the run returned without success.
C17_Witness ==
    /\ pl_pc = "returned"
    /\ pl_done = <<TRUE, FALSE>>
    /\ Len(pl_outputs) = 2
    /\ Len(pl_errors) = 1
    /\ ~pl_result.value.success

\* the place k of the events holds a check that returned a failing verdict
IsFailedCheck(k) ==
    /\ pl_events[k].kind \in {"brand_check", "legal_check"}
    /\ pl_events[k].verdict = "failed"

\* the variant checked at place k of the events was saved before the check
SavedBefore(k) ==
    \E i \in 1..(k - 1) :
        /\ IsSave(i)
        /\ pl_events[i].index = pl_events[k].index
        /\ pl_events[i].ratio = pl_events[k].ratio

\* the variant checked at place k is listed in the outputs as failed
ListedAsFailed(k) ==
    \E a \in DOMAIN pl_outputs :
        /\ pl_outputs[a].index = pl_events[k].index
        /\ pl_outputs[a].aspect_ratio = pl_events[k].ratio
        /\ pl_outputs[a].compliance_status.given
        /\ ~pl_outputs[a].compliance_status.value.passed
        /\ pl_outputs[a].compliance_status.value.violations # <<>>

\* the product at place i of the brief is done and did not fail
ProductSucceeded(i) == i <= Len(pl_done) /\ ~pl_done[i]

\* with compliance disabled no check runs and no asset has a status
DisabledMeansNoStatus ==
    ~pl_config.compliance =>
        /\ \A k \in DOMAIN pl_outputs : pl_outputs[k].compliance_status = Nothing
        /\ \A k \in DOMAIN pl_events : IsSave(k)

\* success is decided by the outputs and the product failures alone
SuccessIgnoresVerdicts ==
    pl_result.given =>
        (pl_result.value.success <=>
            /\ pl_result.value.campaign_id # "unknown"
            /\ \A i \in DOMAIN pl_done : ~pl_done[i]
            /\ pl_outputs # <<>>)

RecordedInOutputs(k) ==
    \E a \in DOMAIN pl_outputs :
        /\ pl_outputs[a].index = pl_events[k].index
        /\ pl_outputs[a].aspect_ratio = pl_events[k].ratio

\* C30 as claimed: after run has returned, every file the run saved to the
\* output directory is recorded as a GeneratedAsset in result.outputs,
\* whatever steps succeeded and failed on the way.
C30_EverySavedFileRecorded ==
    (pl_pc = "returned" /\ pl_result.given) =>
        /\ pl_result.value.outputs = pl_outputs
        /\ \A k \in DOMAIN pl_events : IsSave(k) => RecordedInOutputs(k)

---------------------------------------------------------------------------
(* OpenAIClient.generate_image *)

\* self.max_retries and self.base_delay
max_retries == 3
base_delay == 2

\* _format_size: the supported size of the same orientation
_format_size(size) ==
    IF size[1] = size[2] THEN "1024x1024"
    ELSE IF size[1] < size[2] THEN "1024x1792"
    ELSE "1792x1024"

RECURSIVE Pow2(_)
Pow2(n) == IF n = 0 THEN 1 ELSE 2 * Pow2(n - 1)

\* a slip: the delay does not grow
calculate_backoff_constant(attempt) == base_delay

\* _calculate_backoff
_calculate_backoff(attempt) == base_delay * Pow2(attempt)

\* the exception classes of the openai package the handlers name: RateLimitError
\* and APIConnectionError are subclasses of APIError
RateLimitErrors == {"RateLimitError"}
APIErrors == {"RateLimitError", "APIError", "APIConnectionError"}
APIConnectionErrors == {"APIConnectionError"}

\* what a pass through the try block ends with: the image, an exception of
\* images.generate, or the Exception _download_image raises
TryOutcomes ==
    {"image", "RateLimitError", "APIError", "APIConnectionError", "ValueError",
     "download failed"}

\* a slip: every exception is handled as an API error and retried
ExceptClauseRetryAll(error) ==
    IF error \in RateLimitErrors THEN "rate_limit" ELSE "api"

\* the except clause that handles an exception: the first one, in the order
\* written, whose class the exception is an instance of
ExceptClause(error) ==
    IF error \in RateLimitErrors THEN "rate_limit"
    ELSE IF error \in APIErrors THEN "api"
    ELSE IF error \in APIConnectionErrors THEN "network"
    ELSE "unexpected"

\* the messages of the exceptions generate_image raises
ExhaustedMessage(clause) ==
    CASE clause = "rate_limit" -> "Rate limit exceeded after 3 attempts"
      [] clause = "api" -> "API error after 3 attempts"
      [] clause = "network" -> "Network error after 3 attempts"
UnexpectedMessage == "Unexpected error during image generation"
FailedMessage == "Failed to generate image after 3 attempts"

\* one pass through the body of the loop, up to the sleep
HandleAttempt(attempt, outcome) ==
    IF outcome = "image" THEN [pc |-> "returned", message |-> None, delay |-> 0]
    ELSE LET clause == ExceptClause(outcome)
         IN  IF clause = "unexpected"
             THEN [pc |-> "raised", message |-> UnexpectedMessage, delay |-> 0]
             ELSE IF attempt < max_retries - 1
             THEN [pc |-> "sleeping", message |-> None,
                   delay |-> _calculate_backoff(attempt)]
             ELSE [pc |-> "raised", message |-> ExhaustedMessage(clause), delay |-> 0]

\* the sizes asked for
RequestedSizes == {<<1024, 1024>>, <<1080, 1920>>, <<1920, 1080>>}

InitGenerate ==
    /\ gi_size \in RequestedSizes
    /\ gi_size_str = None
    /\ gi_pc = "ready"
    /\ gi_attempt = 0
    /\ gi_calls = 0
    /\ gi_outcomes = <<>>
    /\ gi_delays = <<>>
    /\ gi_message = None

\* generate_image up to the loop
GenerateImage ==
    /\ gi_pc = "ready"
    /\ gi_size_str' = _format_size(gi_size)
    /\ gi_attempt' = 0
    /\ gi_pc' = IF 0 < max_retries THEN "attempt" ELSE "raised"
    /\ gi_message' = IF 0 < max_retries THEN None ELSE FailedMessage
    /\ UNCHANGED <<gi_size, gi_calls, gi_outcomes, gi_delays>>

\* one attempt: the call of the API, the download, and the handler of the
\* exception if there is one
Attempt ==
    /\ gi_pc = "attempt"
    /\ \E outcome \in TryOutcomes :
          LET r == HandleAttempt(gi_attempt, outcome)
          IN  /\ gi_calls' = gi_calls + 1
              /\ gi_outcomes' = Append(gi_outcomes, outcome)
              /\ gi_pc' = r.pc
              /\ gi_message' = r.message
              /\ gi_delays' = IF r.pc = "sleeping" THEN Append(gi_delays, r.delay)
                              ELSE gi_delays
    /\ UNCHANGED <<gi_size, gi_size_str, gi_attempt>>

\* time.sleep(delay) returns and the loop goes on
Backoff ==
    /\ gi_pc = "sleeping"
    /\ gi_attempt' = gi_attempt + 1
    /\ gi_pc' = IF gi_attempt + 1 < max_retries THEN "attempt" ELSE "raised"
    /\ gi_message' = IF gi_attempt + 1 < max_retries THEN None ELSE FailedMessage
    /\ UNCHANGED <<gi_size, gi_size_str, gi_calls, gi_outcomes, gi_delays>>

---------------------------------------------------------------------------
(* Claims about OpenAIClient.generate_image *)

\* the errors the claim names as the ones retried
RetriedErrors == {"RateLimitError", "APIError", "APIConnectionError"}

LastOutcome == gi_outcomes[Len(gi_outcomes)]

GenerateDone == gi_pc \in {"returned", "raised"}

\* C19 as stated, its last part: an unexpected error means that exactly one
\* call of the API was made.
C19_UnexpectedMeansOneCall ==
    (gi_pc = "raised" /\ gi_message = UnexpectedMessage) => gi_calls = 1

RetryDiscipline ==
    /\ gi_calls = Len(gi_outcomes)
    /\ gi_calls <= max_retries
    /\ \A i \in 1 .. Len(gi_outcomes) - 1 : gi_outcomes[i] \in RetriedErrors
    /\ Len(gi_delays) <= gi_calls
    /\ gi_pc = "returned" <=> (gi_outcomes # <<>> /\ LastOutcome = "image")
    /\ gi_pc = "raised" => gi_outcomes # <<>>
    /\ gi_outcomes # <<>> =>
          /\ (LastOutcome \in RetriedErrors /\ gi_calls < max_retries) =>
                (gi_pc \in {"sleeping", "attempt"} /\ gi_message = None)
          /\ (LastOutcome \in RetriedErrors /\ gi_calls = max_retries) =>
                (gi_pc = "raised" /\ gi_message \in {ExhaustedMessage("rate_limit"),
                                                    ExhaustedMessage("api"),
                                                    ExhaustedMessage("network")})
          /\ LastOutcome \notin RetriedErrors \cup {"image"} =>
                (gi_pc = "raised" /\ gi_message = UnexpectedMessage)

\* C19: generate_image always comes to an end, after at most max_retries (3)
\* calls of the image API: it returns at the first successful attempt, makes
\* a further attempt only after a rate-limit, API or connection error, and
\* raises after the third such failure in a row; any other exception in an
\* attempt, a failed download included, is raised at once as "Unexpected
\* error during image generation" with no further call, so that exactly one
\* call was made when it occurs in the first attempt and two or three when it
\* follows retried failures.
C19_TerminatesWithinMaxRetries == []RetryDiscipline /\ <>GenerateDone

\* C19 witness: the first call hit the rate limit, the second raised another
\* exception, and generate_image raised the unexpected error after two calls.
C19_Witness ==
    /\ gi_pc = "raised"
    /\ gi_outcomes = <<"RateLimitError", "ValueError">>
    /\ gi_calls = 2
    /\ gi_delays = <<2>>
    /\ gi_message = UnexpectedMessage

\* the delays of the attempts made so far, as the claim gives them: 2 s
\* before the second attempt, 4 s before the third
ExpectedDelays(n) == SubSeq(<<2, 4>>, 1, n)

\* C26: the wait before retry k is base_delay * 2^(k-1) seconds, 2 s before
\* the second attempt and 4 s before the third; a wait happens only between
\* a failed retryable attempt and the next attempt: there is none after the
\* last failed attempt, after an unexpected error or after a success.
C26_BackoffBetweenAttempts ==
    /\ gi_pc \in {"sleeping", "attempt"} =>
          /\ gi_delays = ExpectedDelays(gi_calls)
          /\ gi_calls < max_retries
          /\ \A i \in DOMAIN gi_outcomes : gi_outcomes[i] \in RetriedErrors
    /\ gi_pc \in {"returned", "raised"} => gi_delays = ExpectedDelays(gi_calls - 1)
    /\ gi_pc = "ready" => gi_delays = <<>>

\* C26 witness: three rate-limit errors in a row; the client slept 2 s and
\* 4 s and raised after the third without another wait.
C26_Witness ==
    /\ gi_pc = "raised"
    /\ gi_outcomes = <<"RateLimitError", "RateLimitError", "RateLimitError">>
    /\ gi_delays = <<2, 4>>

---------------------------------------------------------------------------
(* BrandConfig.load_logo_template under concurrent callers *)

\* the threads that share one BrandConfig; each calls load_logo_template,
\* directly or through check_brand_compliance and _detect_logo
Threads == {1, 2}

InitThreads ==
    /\ th_template = Nothing
    /\ th_file \in {"readable", "missing", "grayscale"}
    /\ th_pc = [t \in Threads |-> "idle"]
    /\ th_local = [t \in Threads |-> Nothing]
    /\ th_returned = [t \in Threads |-> Nothing]
    /\ th_calls = [t \in Threads |-> 0]
    /\ th_stores = 0

\* a thread calls load_logo_template
ThreadCall(t) ==
    /\ th_pc[t] \in {"idle", "done", "raised"}
    /\ th_calls[t] < MaxThreadCalls
    /\ th_calls' = [th_calls EXCEPT ![t] = @ + 1]
    /\ th_pc' = [th_pc EXCEPT ![t] = "test"]
    /\ th_local' = [th_local EXCEPT ![t] = Nothing]
    /\ th_returned' = [th_returned EXCEPT ![t] = Nothing]
    /\ UNCHANGED <<th_template, th_file, th_stores>>

\* if self._logo_template is None and self.logo_template_path
ThreadTest(t) ==
    /\ th_pc[t] = "test"
    /\ th_pc' = [th_pc EXCEPT ![t] = IF ~th_template.given THEN "exists" ELSE "return"]
    /\ UNCHANGED <<th_template, th_file, th_local, th_returned, th_calls, th_stores>>

\* if Path(self.logo_template_path).exists()
ThreadExists(t) ==
    /\ th_pc[t] = "exists"
    /\ th_pc' = [th_pc EXCEPT ![t] = IF th_file # "missing" THEN "open" ELSE "return"]
    /\ UNCHANGED <<th_template, th_file, th_local, th_returned, th_calls, th_stores>>

\* Image.open, np.array and cv2.cvtColor, which raises on a greyscale image
ThreadOpen(t) ==
    /\ th_pc[t] = "open"
    /\ IF th_file \in RgbLogoFiles
       THEN /\ th_local' = [th_local EXCEPT ![t] = Some(LogoTemplate(th_file))]
            /\ th_pc' = [th_pc EXCEPT ![t] = "store"]
       ELSE /\ th_pc' = [th_pc EXCEPT ![t] = "raised"]
            /\ UNCHANGED th_local
    /\ UNCHANGED <<th_template, th_file, th_returned, th_calls, th_stores>>

\* self._logo_template = ...
ThreadStore(t) ==
    /\ th_pc[t] = "store"
    /\ th_template' = th_local[t]
    /\ th_stores' = th_stores + 1
    /\ th_pc' = [th_pc EXCEPT ![t] = "return"]
    /\ UNCHANGED <<th_file, th_local, th_returned, th_calls>>

\* return self._logo_template
ThreadReturn(t) ==
    /\ th_pc[t] = "return"
    /\ th_returned' = [th_returned EXCEPT ![t] = Some(th_template)]
    /\ th_pc' = [th_pc EXCEPT ![t] = "done"]
    /\ UNCHANGED <<th_template, th_file, th_local, th_calls, th_stores>>

\* one step of one of the threads
ThreadStep ==
    \E t \in Threads :
        \/ ThreadCall(t)
        \/ ThreadTest(t)
        \/ ThreadExists(t)
        \/ ThreadOpen(t)
        \/ ThreadStore(t)
        \/ ThreadReturn(t)

\* the logo file is replaced while the threads run
ReplaceLogoFile ==
    /\ th_file \in {"readable", "missing"}
    /\ th_file' = "modified"
    /\ UNCHANGED <<th_template, th_pc, th_local, th_returned, th_calls, th_stores>>

---------------------------------------------------------------------------
(* Claims about the shared logo cache *)

\* C24 as claimed: under any interleaving of the calls that share one
\* BrandConfig the cache is written once at most, a filled cache is never
\* written again, and all callers that were handed a template were handed
\* the same one.
C24_CacheReadOnlyAfterFirstLoad ==
    /\ th_stores <= 1
    /\ \A t \in Threads, u \in Threads :
          (th_returned[t].given /\ th_returned[u].given
              /\ th_returned[t].value.given /\ th_returned[u].value.given)
              => th_returned[t].value = th_returned[u].value

\* what holds: a call that began when the cache was filled does not write it
C24_LateCallsOnlyRead ==
    [][\A t \in Threads :
          (th_template.given /\ th_pc[t] = "test") =>
              (th_pc'[t] \in {"test", "return"} /\ (th_pc'[t] # th_pc[t] => th_template' = th_template))]_vars

---------------------------------------------------------------------------
(* PipelineOrchestrator._process_product: the compliance results combined *)

\* a slip: the verdict of the brand check is kept
CombineResultsKeepingVerdict(brand_call, legal_status) ==
    IF brand_call.outcome = "raised"
    THEN [brand |-> Nothing, legal |-> Nothing, compliance_status |-> Nothing,
          legal_after |-> Nothing]
    ELSE [brand |-> Some(brand_call.result), legal |-> Some(legal_status),
          compliance_status |->
              Some([passed |-> brand_call.result.passed,
                    details |-> brand_call.result.details,
                    violations |-> brand_call.result.violations \o legal_status.violations]),
          legal_after |-> Some(legal_status)]

\* step 5 with a compliance checker: compliance_status is the object the
\* brand check returned; when the legal check failed its passed is set to
\* False and its violations list is extended by the legal violations, the
\* legal result being read only; when the brand check raises, the legal
\* check is not called and compliance_status stays None
CombineResults(brand_call, legal_status) ==
    IF brand_call.outcome = "raised"
    THEN [brand |-> Nothing, legal |-> Nothing, compliance_status |-> Nothing,
          legal_after |-> Nothing]
    ELSE [brand |-> Some(brand_call.result), legal |-> Some(legal_status),
          compliance_status |->
              IF ~legal_status.passed
              THEN Some([passed |-> FALSE,
                         details |-> brand_call.result.details,
                         violations |-> brand_call.result.violations
                                            \o legal_status.violations])
              ELSE Some(brand_call.result),
          legal_after |-> Some(legal_status)]

\* the brand configurations of the checker
MergeBrandConfigs ==
    {BrandConfig(path, colors, 70) :
        path \in {None, "logo.png"},
        colors \in {<<>>, <<<<"#", "f", "f", "0", "0", "0", "0">>>>}}

\* the variants checked: with and without the logo, with a colour at
\* distance 30 or 31 of the brand red
MergeImages ==
    {[logo_score |-> score, centroids |-> [k \in 1..NColors |-> c],
      size |-> <<1080, 1080>>] : score \in {0, 70}, c \in CentroidColors}

InitMerge ==
    /\ mg_brand_config \in MergeBrandConfigs
    /\ IF mg_brand_config.logo_template_path = None
       THEN mg_logo_file = "missing"
       ELSE mg_logo_file \in {"readable", "grayscale"}
    /\ mg_image \in MergeImages
    /\ \E words \in SeqsUpTo({<<"a">>, <<"b">>}, 2) :
          mg_legal_config = LegalConfig(words, [w \in {<<"a">>} |-> "blocking"])
    /\ mg_message \in {<<"a">>, <<"a", " ", "b">>, <<"c">>}
    /\ mg_pc = "ready"
    /\ mg_brand = Nothing
    /\ mg_legal = Nothing
    /\ mg_status = Nothing
    /\ mg_legal_after = Nothing

\* step 5 for one variant
CheckCompliance ==
    /\ mg_pc = "ready"
    /\ LET brand_call == check_brand_compliance(mg_brand_config, Nothing, mg_logo_file,
                                                 mg_image)
           legal_status == check_legal_compliance(mg_legal_config, mg_message)
           combined == CombineResults(brand_call, legal_status)
       IN  /\ mg_brand' = combined.brand
           /\ mg_legal' = combined.legal
           /\ mg_status' = combined.compliance_status
           /\ mg_legal_after' = combined.legal_after
    /\ mg_pc' = "done"
    /\ UNCHANGED <<mg_brand_config, mg_logo_file, mg_image, mg_legal_config, mg_message>>

---------------------------------------------------------------------------
(* Claims about the combined compliance status *)

\* C25: the compliance_status attached to an asset is the brand result with
\* the legal result of the message folded in: it has passed iff the brand
\* check and the legal check both passed, its violations are the brand
\* violations followed by all legal violations, and the result of the legal
\* check is after the merge what the check returned.
C25_StatusIsBrandMergedWithLegal ==
    (mg_pc = "done" /\ mg_brand.given) =>
        /\ mg_status.given /\ mg_legal.given
        /\ mg_status.value.passed <=> (mg_brand.value.passed /\ mg_legal.value.passed)
        /\ mg_status.value.violations
               = mg_brand.value.violations \o mg_legal.value.violations
        /\ mg_legal_after = mg_legal
        /\ mg_legal.value = check_legal_compliance(mg_legal_config, mg_message)

\* C25 witness: the brand check found no logo and no brand colour, the legal
\* check found two words, and the status lists the four violations, the
\* brand's first.
C25_Witness ==
    /\ mg_pc = "done"
    /\ mg_brand.given
    /\ Len(mg_brand.value.violations) = 2
    /\ Len(mg_legal.value.violations) = 2
    /\ ~mg_status.value.passed
    /\ Len(mg_status.value.violations) = 4
    /\ mg_status.value.violations[1] = mg_brand.value.violations[1]
    /\ mg_status.value.violations[4] = mg_legal.value.violations[2]

---------------------------------------------------------------------------
(* Idle values of the components a specification does not exercise *)

FontIdle ==
    /\ base_font_size = 0 /\ fs_height = 0 /\ fs_size = 0
    /\ fs_prev_height = 0 /\ fs_prev_size = 0

OverlayIdle ==
    /\ ov_config = Nothing /\ ov_image = Nothing /\ ov_image_at_call = Nothing
    /\ ov_text = <<>> /\ ov_position = None /\ ov_brightness = 0
    /\ ov_fonts = Nothing
    /\ ov_pc = "idle" /\ ov_method = None /\ ov_result = Nothing
    /\ ov_trace = Nothing

LegalIdle ==
    /\ legal_config = Nothing /\ lg_text = <<>> /\ lg_pc = "idle"
    /\ lg_result = Nothing

BrandIdle ==
    /\ brand_config = Nothing /\ logo_template = Nothing /\ logo_file = None
    /\ br_image = Nothing /\ br_pc = "idle" /\ br_result = Nothing
    /\ br_calls = 0 /\ logo_opens = 0 /\ logo_loads = 0 /\ logo_returned = Nothing

MatchIdle ==
    /\ cm_rgb1 = <<>> /\ cm_rgb2 = <<>> /\ cm_color1 = <<>> /\ cm_color2 = <<>>
    /\ cm_tolerance = 0 /\ cm_pc = "idle" /\ cm_result = FALSE

PipeIdle ==
    /\ pl_config = Nothing /\ pl_brief = Nothing /\ pl_legal = None
    /\ pl_pc = "idle" /\ pl_next = 0
    /\ pl_outputs = <<>> /\ pl_errors = <<>> /\ pl_events = <<>> /\ pl_done = <<>>
    /\ pl_result = Nothing

GenIdle ==
    /\ gi_size = <<>> /\ gi_size_str = None /\ gi_pc = "idle" /\ gi_attempt = 0
    /\ gi_calls = 0 /\ gi_outcomes = <<>> /\ gi_delays = <<>> /\ gi_message = None

WrapIdle ==
    /\ wr_text = <<>> /\ wr_font = Nothing /\ wr_max_width = 0 /\ wr_pc = "idle"
    /\ wr_result = <<>>

ThreadIdle ==
    /\ th_template = Nothing /\ th_file = None /\ th_pc = <<>> /\ th_local = <<>>
    /\ th_returned = <<>> /\ th_calls = <<>> /\ th_stores = 0

MergeIdle ==
    /\ mg_brand_config = Nothing /\ mg_logo_file = None /\ mg_image = Nothing
    /\ mg_legal_config = Nothing /\ mg_message = <<>> /\ mg_pc = "idle"
    /\ mg_brand = Nothing /\ mg_legal = Nothing /\ mg_status = Nothing
    /\ mg_legal_after = Nothing

---------------------------------------------------------------------------
(* Specifications *)

NextCrop == CreateVariants /\ UNCHANGED <<fontVars, overlayVars, legalVars, brandVars, matchVars, pipeVars, genVars, wrapVars, threadVars, mergeVars>>

\* before a call of this component, the others at rest
StartCrop ==
    InitCrop /\ FontIdle /\ OverlayIdle /\ LegalIdle /\ BrandIdle /\ MatchIdle /\ PipeIdle /\ GenIdle /\ WrapIdle /\ ThreadIdle /\ MergeIdle

SpecCrop == StartCrop /\ [][NextCrop]_vars

NextFont == CalculateFontSize /\ UNCHANGED <<cropVars, overlayVars, legalVars, brandVars, matchVars, pipeVars, genVars, wrapVars, threadVars, mergeVars>>

\* before a call of this component, the others at rest
StartFont ==
    InitFont /\ CropIdle /\ OverlayIdle /\ LegalIdle /\ BrandIdle /\ MatchIdle /\ PipeIdle /\ GenIdle /\ WrapIdle /\ ThreadIdle /\ MergeIdle

SpecFont == StartFont /\ [][NextFont]_vars

NextLegal == CheckLegalCompliance /\ UNCHANGED <<cropVars, fontVars, overlayVars, brandVars, matchVars, pipeVars, genVars, wrapVars, threadVars, mergeVars>>

\* before a call of this component, the others at rest
StartLegal ==
    InitLegal /\ CropIdle /\ FontIdle /\ OverlayIdle /\ BrandIdle /\ MatchIdle /\ PipeIdle /\ GenIdle /\ WrapIdle /\ ThreadIdle /\ MergeIdle

SpecLegal == StartLegal /\ [][NextLegal]_vars

NextBrand == CheckBrandCompliance /\ UNCHANGED <<cropVars, fontVars, overlayVars, legalVars, matchVars, pipeVars, genVars, wrapVars, threadVars, mergeVars>>

\* before a call of this component, the others at rest
StartBrand ==
    InitBrand /\ CropIdle /\ FontIdle /\ OverlayIdle /\ LegalIdle /\ MatchIdle /\ PipeIdle /\ GenIdle /\ WrapIdle /\ ThreadIdle /\ MergeIdle

SpecBrand == StartBrand /\ [][NextBrand]_vars

NextOverlay ==
    (AddTextOverlay \/ AddTextOverlayWithContrast)
        /\ UNCHANGED <<cropVars, fontVars, legalVars, brandVars, matchVars, pipeVars, genVars, wrapVars, threadVars, mergeVars>>

\* before a call of this component, the others at rest
StartOverlay ==
    InitOverlay /\ CropIdle /\ FontIdle /\ LegalIdle /\ BrandIdle /\ MatchIdle /\ PipeIdle /\ GenIdle /\ WrapIdle /\ ThreadIdle /\ MergeIdle

SpecOverlay == StartOverlay /\ [][NextOverlay]_vars

NextLogoCache ==
    (CheckBrandCompliance \/ LoadLogoTemplate \/ NextImage \/ ChangeLogoFile)
        /\ UNCHANGED <<cropVars, fontVars, overlayVars, legalVars, matchVars, pipeVars, genVars, wrapVars, threadVars, mergeVars>>

\* before the first call on a BrandConfig, the others at rest
StartLogoCache ==
    InitLogoCache /\ CropIdle /\ FontIdle /\ OverlayIdle /\ LegalIdle /\ MatchIdle /\ PipeIdle /\ GenIdle /\ WrapIdle /\ ThreadIdle /\ MergeIdle

SpecLogoCache == StartLogoCache /\ [][NextLogoCache]_vars

NextColorMatch == ColorMatch /\ UNCHANGED <<cropVars, fontVars, overlayVars, legalVars, brandVars, pipeVars, genVars, wrapVars, threadVars, mergeVars>>

\* before a call of _color_match, the others at rest
StartColorMatch ==
    InitColorMatch /\ CropIdle /\ FontIdle /\ OverlayIdle /\ LegalIdle /\ BrandIdle /\ PipeIdle /\ GenIdle /\ WrapIdle /\ ThreadIdle /\ MergeIdle

SpecColorMatch == StartColorMatch /\ [][NextColorMatch]_vars

NextPipeline ==
    (StartRun \/ ProcessProduct \/ FinishRun)
        /\ UNCHANGED <<cropVars, fontVars, overlayVars, legalVars, brandVars, matchVars, genVars, wrapVars, threadVars, mergeVars>>

\* before a run of the pipeline, the others at rest
StartPipeline ==
    InitPipeline /\ CropIdle /\ FontIdle /\ OverlayIdle /\ LegalIdle /\ BrandIdle /\ MatchIdle /\ GenIdle /\ WrapIdle /\ ThreadIdle /\ MergeIdle

SpecPipeline == StartPipeline /\ [][NextPipeline]_vars

NextFontLoad ==
    (AddTextOverlay \/ AddTextOverlayWithContrast)
        /\ UNCHANGED <<cropVars, fontVars, legalVars, brandVars, matchVars, pipeVars, genVars, wrapVars, threadVars, mergeVars>>

\* before an overlay call on some machine, the others at rest
StartFontLoad ==
    InitFontLoad /\ CropIdle /\ FontIdle /\ LegalIdle /\ BrandIdle /\ MatchIdle /\ PipeIdle /\ GenIdle /\ WrapIdle /\ ThreadIdle /\ MergeIdle

SpecFontLoad == StartFontLoad /\ [][NextFontLoad]_vars

NextGenerate ==
    (GenerateImage \/ Attempt \/ Backoff)
        /\ UNCHANGED <<cropVars, fontVars, overlayVars, legalVars, brandVars, matchVars, pipeVars, wrapVars, threadVars, mergeVars>>

\* before a call of generate_image, the others at rest; the interpreter takes every step that is due
StartGenerate ==
    InitGenerate /\ CropIdle /\ FontIdle /\ OverlayIdle /\ LegalIdle /\ BrandIdle /\ MatchIdle /\ PipeIdle /\ WrapIdle /\ ThreadIdle /\ MergeIdle

SpecGenerate == StartGenerate /\ [][NextGenerate]_vars /\ WF_vars(NextGenerate)

NextWrap == WrapText /\ UNCHANGED <<cropVars, fontVars, overlayVars, legalVars, brandVars, matchVars, pipeVars, genVars, threadVars, mergeVars>>

\* before a call of _wrap_text, the others at rest
StartWrap ==
    InitWrap /\ CropIdle /\ FontIdle /\ OverlayIdle /\ LegalIdle /\ BrandIdle /\ MatchIdle /\ PipeIdle /\ GenIdle /\ ThreadIdle /\ MergeIdle

SpecWrap == StartWrap /\ [][NextWrap]_vars

NextContrast ==
    (AddTextOverlay \/ AddTextOverlayWithContrast)
        /\ UNCHANGED <<cropVars, fontVars, legalVars, brandVars, matchVars, pipeVars, genVars, wrapVars, threadVars, mergeVars>>

\* before an overlay call under some base opacity, the others at rest
StartContrast ==
    InitContrast /\ CropIdle /\ FontIdle /\ LegalIdle /\ BrandIdle /\ MatchIdle /\ PipeIdle /\ GenIdle /\ WrapIdle /\ ThreadIdle /\ MergeIdle

SpecContrast == StartContrast /\ [][NextContrast]_vars

NextThreads ==
    (ThreadStep \/ ReplaceLogoFile)
        /\ UNCHANGED <<cropVars, fontVars, overlayVars, legalVars, brandVars, matchVars, pipeVars, genVars, wrapVars, mergeVars>>

\* before the first call on a BrandConfig shared by the threads, the others at rest
StartThreads ==
    InitThreads /\ CropIdle /\ FontIdle /\ OverlayIdle /\ LegalIdle /\ BrandIdle /\ MatchIdle /\ PipeIdle /\ GenIdle /\ WrapIdle /\ MergeIdle

SpecThreads == StartThreads /\ [][NextThreads]_vars

NextMerge == CheckCompliance /\ UNCHANGED <<cropVars, fontVars, overlayVars, legalVars, brandVars, matchVars, pipeVars, genVars, wrapVars, threadVars>>

\* before the compliance step of a variant, the others at rest
StartMerge ==
    InitMerge /\ CropIdle /\ FontIdle /\ OverlayIdle /\ LegalIdle /\ BrandIdle /\ MatchIdle /\ PipeIdle /\ GenIdle /\ WrapIdle /\ ThreadIdle

SpecMerge == StartMerge /\ [][NextMerge]_vars

=============================================================================
